---- MODULE Spec2Model ----
(***************************************************************************)
(* A state-machine model of vue-map-drawing's interactive editing engine:  *)
(* HistoryManager (core/HistoryManager.js), the EventBus, the SnapEngine   *)
(* (core/SnapEngine.js), the DrawingManager (core/DrawingManager.js) and   *)
(* the useMapDrawing composable.                                           *)
(*                                                                         *)
(* The specifications share the variables:                                 *)
(*   SpecHistory  a HistoryManager on its own, driven by push / undo /     *)
(*                redo / clear with opaque entries whose callbacks may     *)
(*                throw;                                                   *)
(*   Spec         a DrawingManager (which owns a HistoryManager) driven    *)
(*                by its public methods and clicks on the map, with the    *)
(*                pointer on one point;                                    *)
(*   SpecGeo      the same with the pointer on a grid of points;           *)
(*   SpecInput    Spec with mouse moves, double clicks and the keyboard;   *)
(*   SpecTwo      a session in which two shapes are created;               *)
(*   SpecEdit     a session with gestures on the handles of a shape;       *)
(*   SpecPaths    SpecEdit with deleteShape and clearAll, every point at   *)
(*                the origin;                                              *)
(*   SpecPointer  drawing with pointer moves that may find a snap point    *)
(*                away from the clicks;                                    *)
(*   SpecBus      a DrawingManager whose events have subscribers that      *)
(*                return or throw;                                         *)
(*   SpecSnap     a SnapEngine on its own, with the geometry of its        *)
(*                shapes, driven by its methods;                           *)
(*   SpecProject  the two segment projections applied to the points of a   *)
(*                pixel grid;                                              *)
(*   SpecSnapping SpecPointer with setSnapping switching snapping on and   *)
(*                off;                                                     *)
(*   SpecGlue     a DrawingManager created by useMapDrawing, whose refs    *)
(*                follow the manager's events.                             *)
(*                                                                         *)
(* Every handler runs to completion (the code is single-threaded), so a    *)
(* handler is one action.  The handlers are written as operators on a      *)
(* record s holding the whole program state, so that a handler can call    *)
(* another (completeDrawing -> registerShape -> push -> notifyChange) as   *)
(* the code does.                                                          *)
(*                                                                         *)
(* Encodings.  JavaScript's undefined/null for a field of type T is the    *)
(* empty sequence <<>> and a present value x is <<x>> (None / Some).  A    *)
(* shape id `shape_n` is the integer n and the null selection is 0.        *)
(* currentIndex keeps the source's 0-based value (-1 = before all          *)
(* entries), so the current entry is history[currentIndex + 1] here.       *)
(* Map objects are sequences in insertion order.                           *)
(***************************************************************************)
EXTENDS Integers, Sequences, FiniteSets, TLC

\* ------------------------------------------------------------------ bounds

\* pushes made by the caller of a stand-alone HistoryManager (SpecHistory)
MaxPushes == 5
\* shapes ever created in one DrawingManager session (Spec, SpecGeo)
MaxShapes == 1
MaxShapesGeo == 1
\* points accumulated by one polygon / polyline drawing
MaxPath == 3
\* entries the log may hold in Spec before further recording is cut off
MaxLog == 2
\* the same bounds of SpecTwo and of SpecEdit
MaxShapesTwo == 2
MaxLogTwo == 3
MaxShapesEdit == 1
MaxLogEdit == 1
\* vertices a path may reach by midpoint insertions
MaxVertices == 4
\* SpecSnap: shapes in the engine's registry, and the grid of cursor points
MaxSnapShapes == 2
MaxCoord == 2
\* SpecBus: subscriptions on the event bus
MaxListeners == 2
\* SpecProject: pixel coordinates run from -MaxPixel to MaxPixel
MaxPixel == 1

\* the default of options.maxSteps
DefaultMaxSteps == 50

\* the values of options.history.maxSteps tried; 0 stands for an absent (or
\* zero) option, which `||` replaces by the default
MaxStepsOptions == {0, 1, 2, 3}
MaxStepsOptionsMgr == {0}

\* geographic points the pointer can be at
Origin == {[lat |-> 0, lng |-> 0]}
Points == {[lat |-> 0, lng |-> 0], [lat |-> 8, lng |-> 16]}

ShapeTypes == {"polygon", "polyline", "circle", "rectangle"}

\* names a caller gives with updateShapeName
UserNames == {"A"}

\* ------------------------------------------------------------------ helpers

None == <<>>
Some(x) == <<x>>

Max(a, b) == IF a >= b THEN a ELSE b
Min(a, b) == IF a <= b THEN a ELSE b
Abs(a) == IF a >= 0 THEN a ELSE 0 - a

\* Array.prototype.slice(0, n)
Slice0(seq, n) == SubSeq(seq, 1, Min(n, Len(seq)))

\* Array.prototype.shift(): the array without its first element
Shift(seq) == SubSeq(seq, 2, Len(seq))

SeqToSet(seq) == {seq[i] : i \in 1..Len(seq)}

RECURSIVE FilterOut(_, _)
\* an insertion-ordered Map after delete(id)
FilterOut(seq, id) ==
    IF seq = <<>> THEN <<>>
    ELSE IF Head(seq).id = id THEN FilterOut(Tail(seq), id)
    ELSE <<Head(seq)>> \o FilterOut(Tail(seq), id)

RECURSIVE Without(_, _)
Without(seq, x) ==
    IF seq = <<>> THEN <<>>
    ELSE IF Head(seq) = x THEN Without(Tail(seq), x)
    ELSE <<Head(seq)>> \o Without(Tail(seq), x)

\* ------------------------------------------------------------------ state

VARIABLES
    maxSteps,           \* HistoryManager.maxSteps
    history,            \* HistoryManager.history
    currentIndex,       \* HistoryManager.currentIndex
    nextId,             \* SpecHistory: the id of the next opaque entry pushed
    shapes,             \* DrawingManager.shapes (Map, insertion order)
    selectedShapeId,    \* DrawingManager.selectedShapeId (0 = null)
    isDrawing,          \* DrawingManager.isDrawing
    drawingType,        \* DrawingManager.drawingType ("" = null)
    drawingPath,        \* DrawingManager.drawingPath
    lastSnapPoint,      \* DrawingManager.lastSnapPoint (None = null)
    idCounter,          \* DrawingManager._idCounter
    shapeNameCounter,   \* DrawingManager._shapeNameCounter
    drawingListeners,   \* number of listener sets held in _drawingListeners
    mapListeners,       \* number of drawing listener sets registered on the map
    previewMarkers,     \* number of markers in _previewMarkers
    snapShapes,         \* SnapEngine.shapes: ids, in registration order
    snapping,           \* options.snapping.enabled and SnapEngine.enabled
    vertexMarkers,      \* ids with an entry in _vertexMarkers
    visibleMarkers,     \* ids whose handles are visible
    labels,             \* ids with an entry in _labels
    selectedStyle,      \* ids whose object has the `selected` style
    staleMarkers,       \* ids whose handles are bound to an object that has
                        \* left the registry
    drag,               \* the handle gesture in progress (None = no gesture)
    engine,             \* SpecSnap: a SnapEngine on its own and its map's zoom
    found,              \* SpecSnap: the last findSnapPoint call and its outcome
    probe,              \* SpecProject: a point, a segment and their projections
    listeners,          \* EventBus.listeners: the subscriptions, in order
    glue,               \* useMapDrawing's refs (None = no composable in use)
    invoked,            \* listener calls made by the last operation, in order
    events,             \* events emitted by the last operation, in order
    calls,              \* entry callbacks invoked by the last operation
    dropped,            \* entries the last operation removed from the log
    result,             \* what HistoryManager.undo/redo returned to its caller
    mgrResult,          \* what the DrawingManager method returned
    lastOp,             \* the last operation performed
    prev                \* SpecHistory: lastOp and dropped of the operation before

vars == <<maxSteps, history, currentIndex, nextId, shapes, selectedShapeId,
          isDrawing, drawingType, drawingPath, lastSnapPoint, idCounter,
          shapeNameCounter, drawingListeners, mapListeners, previewMarkers,
          snapShapes, snapping, vertexMarkers, visibleMarkers, labels, selectedStyle,
          staleMarkers, drag, engine, found, probe, listeners, glue, invoked, events,
          calls, dropped, result, mgrResult, lastOp, prev>>

\* the program state as one record; raised is None while the handler runs
\* normally, and holds the state at the throw once an exception is on its
\* way out of the handler
Cur ==
    [maxSteps |-> maxSteps, history |-> history, currentIndex |-> currentIndex,
     nextId |-> nextId, shapes |-> shapes, selectedShapeId |-> selectedShapeId,
     isDrawing |-> isDrawing, drawingType |-> drawingType,
     drawingPath |-> drawingPath, lastSnapPoint |-> lastSnapPoint,
     idCounter |-> idCounter, shapeNameCounter |-> shapeNameCounter,
     drawingListeners |-> drawingListeners, mapListeners |-> mapListeners,
     previewMarkers |-> previewMarkers,
     snapShapes |-> snapShapes, snapping |-> snapping,
     vertexMarkers |-> vertexMarkers,
     visibleMarkers |-> visibleMarkers, labels |-> labels,
     selectedStyle |-> selectedStyle, staleMarkers |-> staleMarkers,
     drag |-> drag, engine |-> engine, found |-> found,
     probe |-> probe, listeners |-> listeners, glue |-> glue,
     invoked |-> invoked,
     raised |-> None,
     events |-> events, calls |-> calls,
     dropped |-> dropped, result |-> result, mgrResult |-> mgrResult,
     lastOp |-> lastOp, prev |-> prev]

\* the state a handler starts from: the observation log of the previous
\* operation is cleared
NoneDropped == [truncated |-> <<>>, evicted |-> <<>>]

Begin(op) ==
    [Cur EXCEPT !.events = <<>>, !.invoked = <<>>, !.calls = <<>>,
                !.dropped = NoneDropped,
                !.result = "none", !.mgrResult = "none", !.lastOp = op]

\* the end of a handler: an exception that left it leaves the state as it
\* was at the throw
Commit(s) ==
    LET c == IF s.raised = None THEN s ELSE s.raised[1]
    IN /\ maxSteps' = c.maxSteps
       /\ history' = c.history
       /\ currentIndex' = c.currentIndex
       /\ nextId' = c.nextId
       /\ shapes' = c.shapes
       /\ selectedShapeId' = c.selectedShapeId
       /\ isDrawing' = c.isDrawing
       /\ drawingType' = c.drawingType
       /\ drawingPath' = c.drawingPath
       /\ lastSnapPoint' = c.lastSnapPoint
       /\ idCounter' = c.idCounter
       /\ shapeNameCounter' = c.shapeNameCounter
       /\ drawingListeners' = c.drawingListeners
       /\ mapListeners' = c.mapListeners
       /\ previewMarkers' = c.previewMarkers
       /\ snapShapes' = c.snapShapes
       /\ snapping' = c.snapping
       /\ glue' = c.glue
       /\ vertexMarkers' = c.vertexMarkers
       /\ visibleMarkers' = c.visibleMarkers
       /\ labels' = c.labels
       /\ selectedStyle' = c.selectedStyle
       /\ staleMarkers' = c.staleMarkers
       /\ drag' = c.drag
       /\ engine' = c.engine
       /\ found' = c.found
       /\ probe' = c.probe
       /\ listeners' = c.listeners
       /\ invoked' = c.invoked
       /\ events' = c.events
       /\ calls' = c.calls
       /\ result' = c.result
       /\ mgrResult' = c.mgrResult
       /\ lastOp' = c.lastOp
       /\ prev' = c.prev
       /\ dropped' = c.dropped

\* ------------------------------------------------------------------ EventBus

\* an event as a subscriber receives it: its name and its data, of which each
\* event uses the fields it has ({id}, {shape}, {type}, {count}, {active,
\* point}, or the history state)
Event(name) ==
    [name |-> name, id |-> 0, shape |-> None, state |-> None, type |-> "",
     count |-> 0, active |-> FALSE, point |-> None]

\* a listener as the bus holds it: the event it is subscribed to and what
\* its callback does (it returns, or it throws)
Listener(event, throws) == [event |-> event, throws |-> throws]

\* EventBus.on, EventBus.off (of the i-th subscription)
on(s, event, throws) == [s EXCEPT !.listeners = Append(@, Listener(event, throws))]

off(s, i) ==
    [s EXCEPT !.listeners = SubSeq(@, 1, i - 1) \o SubSeq(@, i + 1, Len(@))]

\* one call of a listener, for the k-th emission of the operation
Invocation(i, k, threw) == [listener |-> i, emission |-> k, threw |-> threw]

\* an exception leaves the handler: the state stays as it is now
raise(s) == IF s.raised # None THEN s ELSE [s EXCEPT !.raised = Some(s)]

\* a dispatch that lets a listener's exception out of emit
RECURSIVE dispatchUncaught(_, _, _, _)
dispatchUncaught(s, event, k, i) ==
    IF i > Len(s.listeners) THEN s
    ELSE IF s.listeners[i].event # event THEN dispatchUncaught(s, event, k, i + 1)
    ELSE LET s1 == [s EXCEPT !.invoked =
                        Append(@, Invocation(i, k, s.listeners[i].throws))]
         IN IF s.listeners[i].throws THEN raise(s1)
            ELSE dispatchUncaught(s1, event, k, i + 1)

\* ------------------------------------------------------------------ useMapDrawing

\* a _serialize that forgets the name and the radius
serializeForgets(shape) ==
    [id |-> shape.id, name |-> "", type |-> shape.type,
     path |-> shape.path, center |-> shape.center, radius |-> None,
     bounds |-> shape.bounds, area |-> shape.area]

\* _serialize
serialize(shape) ==
    [id |-> shape.id, name |-> shape.name, type |-> shape.type,
     path |-> shape.path, center |-> shape.center, radius |-> shape.radius,
     bounds |-> shape.bounds, area |-> shape.area]

\* getShapes
getShapes(s) == [i \in 1..Len(s.shapes) |-> serialize(s.shapes[i])]

\* the refs of the composable as it creates them (null = None; the
\* serialized shapes are kept as the manager hands them over)
useMapDrawing ==
    [shapes |-> <<>>, activeShape |-> None, isDrawing |-> FALSE,
     drawingType |-> "", pointCount |-> 0, canUndo |-> FALSE,
     canRedo |-> FALSE, snapActive |-> FALSE]

\* the listeners init() subscribes on the manager, as one function of the
\* event: s is the manager's state when the event is emitted
sync(refs, s, ev) ==
    CASE ev.name = "shape:created" -> [refs EXCEPT !.shapes = getShapes(s)]
      [] ev.name = "shape:updated" ->
           [refs EXCEPT !.shapes = getShapes(s),
                        !.activeShape =
                            IF @ # None /\ @[1].id = ev.shape[1].id
                            THEN ev.shape ELSE @]
      [] ev.name = "shape:deleted" ->
           [refs EXCEPT !.shapes = getShapes(s),
                        !.activeShape =
                            IF @ # None /\ @[1].id = ev.id THEN None ELSE @]
      [] ev.name = "shape:selected" -> [refs EXCEPT !.activeShape = ev.shape]
      [] ev.name = "shape:deselected" -> [refs EXCEPT !.activeShape = None]
      [] ev.name = "shapes:cleared" ->
           [refs EXCEPT !.shapes = <<>>, !.activeShape = None]
      [] ev.name = "drawing:start" ->
           [refs EXCEPT !.isDrawing = TRUE, !.drawingType = ev.type,
                        !.pointCount = 0]
      [] ev.name = "drawing:update" -> [refs EXCEPT !.pointCount = ev.count]
      [] ev.name \in {"drawing:cancel", "drawing:complete"} ->
           [refs EXCEPT !.isDrawing = FALSE, !.drawingType = "",
                        !.pointCount = 0, !.snapActive = FALSE]
      [] ev.name = "history:change" ->
           [refs EXCEPT !.canUndo = ev.state[1].canUndo,
                        !.canRedo = ev.state[1].canRedo]
      [] ev.name = "snap:active" -> [refs EXCEPT !.snapActive = ev.active]
      [] OTHER -> refs

\* listeners.get(event).forEach: each callback from the i-th on is called in
\* a try block of its own, and what it throws is caught and logged
RECURSIVE dispatch(_, _, _, _)
dispatch(s, event, k, i) ==
    IF i > Len(s.listeners) THEN s
    ELSE IF s.listeners[i].event # event THEN dispatch(s, event, k, i + 1)
    ELSE dispatch([s EXCEPT !.invoked =
                      Append(@, Invocation(i, k, s.listeners[i].throws))],
                  event, k, i + 1)

\* EventBus.emit: the event joins the stream of the operation and every
\* listener subscribed to it is called with the data
emit(s, ev) ==
    LET s1 == [s EXCEPT !.events = Append(@, ev)]
        s2 == [s1 EXCEPT !.glue = IF @ = None THEN @ ELSE Some(sync(@[1], s1, ev))]
    IN dispatch(s2, ev.name, Len(s2.events), 1)

\* ------------------------------------------------------------------ HistoryManager

\* constructor: this.maxSteps = options.maxSteps || 50
constructorMaxSteps(option) == IF option = 0 THEN DefaultMaxSteps ELSE option

canUndo(s) == s.currentIndex >= 0

\* a canRedo that is off by one
canRedoOffByOne(s) == s.currentIndex < Len(s.history)

canRedo(s) == s.currentIndex < Len(s.history) - 1

getState(s) ==
    [canUndo |-> canUndo(s), canRedo |-> canRedo(s),
     historyLength |-> Len(s.history), currentIndex |-> s.currentIndex]

\* _notifyChange: onChange(getState()); the DrawingManager's onChange emits
\* history:change, and the stand-alone manager's subscriber is logged alike
notifyChange(s) ==
    emit(s, [Event("history:change") EXCEPT !.state = Some(getState(s))])

\* a push that keeps the redo branch
pushTruncateKeeps(s) == s

\* push, up to the notification
pushTruncate(s) ==
    IF s.currentIndex < Len(s.history) - 1
    THEN [s EXCEPT !.history = Slice0(@, s.currentIndex + 1),
                   !.dropped.truncated =
                       SubSeq(s.history, s.currentIndex + 2, Len(s.history))]
    ELSE s

pushAppend(s, action) ==
    [s EXCEPT !.history = Append(@, action), !.currentIndex = @ + 1]

\* an eviction that forgets to move the index
pushLimitNoDecrement(s) ==
    IF Len(s.history) > s.maxSteps
    THEN [s EXCEPT !.history = Shift(@), !.dropped.evicted = <<Head(s.history)>>]
    ELSE s

\* an eviction that removes the newest entry instead of the oldest
pushLimitPop(s) ==
    IF Len(s.history) > s.maxSteps
    THEN [s EXCEPT !.history = SubSeq(@, 1, Len(@) - 1), !.currentIndex = @ - 1,
                   !.dropped.evicted = <<s.history[Len(s.history)]>>]
    ELSE s

pushLimit(s) ==
    IF Len(s.history) > s.maxSteps
    THEN [s EXCEPT !.history = Shift(@), !.currentIndex = @ - 1,
                   !.dropped.evicted = <<Head(s.history)>>]
    ELSE s

\* a push that notifies before limiting the log
pushNotifyEarly(s, action) ==
    pushLimit(notifyChange(pushAppend(pushTruncate(s), action)))

push(s, action) == notifyChange(pushLimit(pushAppend(pushTruncate(s), action)))

clear(s) == notifyChange([s EXCEPT !.history = <<>>, !.currentIndex = -1])

\* the entry's callback is invoked: logged with the index the callback sees
called(s, action, kind, throws) ==
    [s EXCEPT !.calls = Append(@, [type |-> action.type, id |-> action.id,
                                   kind |-> kind, index |-> s.currentIndex,
                                   threw |-> throws])]

\* ------------------------------------------------------------------ geometry

\* distanceLatLng is the haversine distance in metres; the model keeps a
\* planar stand-in on the integer grid (the squared Euclidean distance),
\* which like the original is a function of the two points only, zero
\* exactly when they coincide, and symmetric
distanceLatLng(p1, p2) ==
    (p2.lat - p1.lat) * (p2.lat - p1.lat) + (p2.lng - p1.lng) * (p2.lng - p1.lng)

RECURSIVE areaSum(_, _)
areaSum(coordinates, i) ==
    IF i > Len(coordinates) THEN 0
    ELSE LET p1 == coordinates[i]
             p2 == coordinates[(i % Len(coordinates)) + 1]
         IN (p2.lng - p1.lng) * (p1.lat + p2.lat) + areaSum(coordinates, i + 1)

\* calculatePolygonArea: 0 below 3 points, else the absolute value of a sum
\* over consecutive pairs (wrapping); the spherical-excess terms are replaced
\* by their planar counterpart
calculatePolygonArea(coordinates) ==
    IF Len(coordinates) < 3 THEN 0 ELSE Abs(areaSum(coordinates, 1))

\* ------------------------------------------------------------------ DrawingManager: the registry

\* Map.prototype.has / get / set / delete on an insertion-ordered Map whose
\* values carry their key in .id
Has(map, id) == \E i \in 1..Len(map) : map[i].id = id

Get(map, id) == map[CHOOSE i \in 1..Len(map) : map[i].id = id]

MapSet(map, v) ==
    IF Has(map, v.id)
    THEN [i \in 1..Len(map) |-> IF map[i].id = v.id THEN v ELSE map[i]]
    ELSE Append(map, v)

Ids(map) == {map[i].id : i \in 1..Len(map)}

\* SnapEngine.addShape / removeShape on its Map of ids
snapAddShape(ids, id) == IF id \in SeqToSet(ids) THEN ids ELSE Append(ids, id)

snapRemoveShape(ids, id) == Without(ids, id)

\* `Shape ${n}`
ShapeName(n) ==
    CASE n = 1 -> "Shape 1"
      [] n = 2 -> "Shape 2"
      [] n = 3 -> "Shape 3"
      [] n = 4 -> "Shape 4"
      [] OTHER -> "Shape n"

IsPathType(type) == type = "polygon" \/ type = "polyline"

\* { ...data, obj }: obj is the rendered object, of which the model keeps the
\* path it was constructed with (polygon, polyline)
withObj(data, objPath) ==
    [id |-> data.id, name |-> data.name, type |-> data.type,
     path |-> data.path, center |-> data.center, radius |-> data.radius,
     bounds |-> data.bounds, area |-> data.area, obj |-> [path |-> objPath]]

\* _removeMarkers
removeMarkers(s, id) ==
    [s EXCEPT !.vertexMarkers = @ \ {id}, !.visibleMarkers = @ \ {id},
              !.staleMarkers = @ \ {id}]

\* _createVertexMarkers for a shape of the registry: the handles replace the
\* Map entries of the id and are created invisible
createVertexMarkers(s, id) ==
    [s EXCEPT !.vertexMarkers = @ \cup {id}, !.visibleMarkers = @ \ {id},
              !.staleMarkers = @ \ {id}]

\* _showMarkers / _hideMarkers
showMarkers(s, id) ==
    [s EXCEPT !.visibleMarkers = @ \cup ({id} \cap s.vertexMarkers)]

hideMarkers(s, id) == [s EXCEPT !.visibleMarkers = @ \ {id}]

\* this.shapes.delete(id) as the listeners of a handle being dragged see it:
\* they closed over the shape object, which they keep after it has left the
\* registry
detach(s, id) ==
    IF s.drag # None /\ s.drag[1].id = id /\ ~s.drag[1].detached
    THEN [s EXCEPT !.drag = Some([@[1] EXCEPT !.detached = TRUE,
                                               !.shape = Some(Get(s.shapes, id))])]
    ELSE s

\* _removeShape
removeShape(s, id) ==
    IF ~Has(s.shapes, id) THEN s
    ELSE LET s1 == removeMarkers(s, id)
             s2 == [detach(s1, id) EXCEPT !.labels = @ \ {id},
                                          !.selectedStyle = @ \ {id},
                                          !.shapes = FilterOut(@, id),
                                          !.snapShapes = snapRemoveShape(@, id)]
             s3 == IF s2.selectedShapeId = id
                   THEN [s2 EXCEPT !.selectedShapeId = 0]
                   ELSE s2
         IN emit(s3, [Event("shape:deleted") EXCEPT !.id = id])

\* _restoreShape
restoreShape(s, data) ==
    LET shape == withObj(data, IF IsPathType(data.type) THEN data.path ELSE None)
        s1 == [s EXCEPT !.shapes = MapSet(@, shape),
                        !.snapShapes = snapAddShape(@, data.id),
                        !.selectedStyle = @ \ {data.id}]
        s2 == IF IsPathType(shape.type) THEN createVertexMarkers(s1, shape.id)
              ELSE s1
        s3 == [s2 EXCEPT !.labels = @ \cup {shape.id}]
    IN emit(s3, [Event("shape:created") EXCEPT !.shape = Some(serialize(shape))])

RECURSIVE restoreAll(_, _)
\* all.forEach(d => this._restoreShape(d))
restoreAll(s, all) ==
    IF all = <<>> THEN s ELSE restoreAll(restoreShape(s, Head(all)), Tail(all))

RECURSIVE removeAll(_, _)
\* this.shapes.forEach((s, id) => this._removeShape(id)): ids is the Map's
\* key order when the loop starts; a key deleted on the way is not visited
removeAll(s, ids) ==
    IF ids = <<>> THEN s ELSE removeAll(removeShape(s, Head(ids)), Tail(ids))

KeyOrder(map) == [i \in 1..Len(map) |-> map[i].id]

\* ------------------------------------------------------------------ history entries

\* An entry is {type, undo, redo}; the closures are represented by what they
\* captured: the shape id and the serialized snapshot(s).  An "opaque" entry
\* is one pushed by a caller of a stand-alone HistoryManager: its callbacks
\* touch no state of the model and either return or throw.
Entry(type, id, data) == [type |-> type, id |-> id, data |-> data]

\* action.undo()
runUndo(s, action) ==
    CASE action.type = "create" -> removeShape(s, action.id)
      [] action.type = "delete" -> restoreShape(s, action.data[1])
      [] action.type = "clear" -> restoreAll(s, action.data)
      [] OTHER -> s

\* a redo callback that does not bring a created shape back
runRedoForgetsCreate(s, action) ==
    CASE action.type = "delete" -> removeShape(s, action.id)
      [] action.type = "clear" -> removeAll(s, KeyOrder(s.shapes))
      [] OTHER -> s

\* action.redo()
runRedo(s, action) ==
    CASE action.type = "create" -> restoreShape(s, action.data[1])
      [] action.type = "delete" -> removeShape(s, action.id)
      [] action.type = "clear" -> removeAll(s, KeyOrder(s.shapes))
      [] OTHER -> s

\* an undo that moves the index before the callback and never moves it back
undoDecrementFirst(s, throws) ==
    IF ~canUndo(s) THEN [s EXCEPT !.result = "false"]
    ELSE LET action == s.history[s.currentIndex + 1]
             s1 == called(s, action, "undo", throws)
             s2 == [s1 EXCEPT !.currentIndex = @ - 1]
         IN IF throws THEN [s2 EXCEPT !.result = "false"]
            ELSE [notifyChange(runUndo(s2, action)) EXCEPT !.result = "true"]

\* an undo that reports success at the boundary
undoBoundaryTrue(s, throws) ==
    IF ~canUndo(s) THEN [s EXCEPT !.result = "true"]
    ELSE LET action == s.history[s.currentIndex + 1]
             s1 == called(s, action, "undo", throws)
         IN IF throws THEN [s1 EXCEPT !.result = "false"]
            ELSE LET s2 == runUndo(s1, action)
                     s3 == notifyChange([s2 EXCEPT !.currentIndex = @ - 1])
                 IN [s3 EXCEPT !.result = "true"]

\* HistoryManager.undo; throws: whether the entry's undo callback throws
undo(s, throws) ==
    IF ~canUndo(s) THEN [s EXCEPT !.result = "false"]
    ELSE LET action == s.history[s.currentIndex + 1]
             s1 == called(s, action, "undo", throws)
         IN IF throws THEN [s1 EXCEPT !.result = "false"]
            ELSE LET s2 == runUndo(s1, action)
                     s3 == notifyChange([s2 EXCEPT !.currentIndex = @ - 1])
                 IN [s3 EXCEPT !.result = "true"]

\* a redo without the rollback in its catch block
redoNoRollback(s, throws) ==
    IF ~canRedo(s) THEN [s EXCEPT !.result = "false"]
    ELSE LET s0 == [s EXCEPT !.currentIndex = @ + 1]
             action == s0.history[s0.currentIndex + 1]
             s1 == called(s0, action, "redo", throws)
         IN IF throws THEN [s1 EXCEPT !.result = "false"]
            ELSE LET s2 == notifyChange(runRedo(s1, action))
                 IN [s2 EXCEPT !.result = "true"]

\* HistoryManager.redo; throws: whether the entry's redo callback throws
redo(s, throws) ==
    IF ~canRedo(s) THEN [s EXCEPT !.result = "false"]
    ELSE LET s0 == [s EXCEPT !.currentIndex = @ + 1]
             action == s0.history[s0.currentIndex + 1]
             s1 == called(s0, action, "redo", throws)
         IN IF throws
            THEN [s1 EXCEPT !.currentIndex = @ - 1, !.result = "false"]
            ELSE LET s2 == notifyChange(runRedo(s1, action))
                 IN [s2 EXCEPT !.result = "true"]

\* ------------------------------------------------------------------ DrawingManager: selection

\* deselectShape
deselectShape(s) ==
    IF s.selectedShapeId = 0 THEN s
    ELSE LET s1 == hideMarkers(s, s.selectedShapeId)
             s2 == [s1 EXCEPT !.selectedStyle = @ \ {s.selectedShapeId},
                              !.selectedShapeId = 0]
         IN emit(s2, Event("shape:deselected"))

\* a selectShape that leaves the shape selected before as it is
selectShapeKeepsPrevious(s, id) ==
    IF s.selectedShapeId = id THEN s
    ELSE LET s2 == [s EXCEPT !.selectedShapeId = id]
         IN IF Has(s2.shapes, id)
            THEN emit(showMarkers([s2 EXCEPT !.selectedStyle = @ \cup {id}], id),
                      [Event("shape:selected")
                          EXCEPT !.shape = Some(serialize(Get(s2.shapes, id)))])
            ELSE s2

\* a selectShape without the test for the shape already selected
selectShapeAgain(s, id) ==
    LET s1 == IF s.selectedShapeId # 0
              THEN [hideMarkers(s, s.selectedShapeId)
                       EXCEPT !.selectedStyle = @ \ {s.selectedShapeId}]
              ELSE s
        s2 == [s1 EXCEPT !.selectedShapeId = id]
    IN IF Has(s2.shapes, id)
       THEN emit(showMarkers([s2 EXCEPT !.selectedStyle = @ \cup {id}], id),
                 [Event("shape:selected")
                     EXCEPT !.shape = Some(serialize(Get(s2.shapes, id)))])
       ELSE s2

\* selectShape
selectShape(s, id) ==
    IF s.selectedShapeId = id THEN s
    ELSE LET s1 == IF s.selectedShapeId # 0
                   THEN [hideMarkers(s, s.selectedShapeId)
                            EXCEPT !.selectedStyle = @ \ {s.selectedShapeId}]
                   ELSE s
             s2 == [s1 EXCEPT !.selectedShapeId = id]
         IN IF Has(s2.shapes, id)
            THEN emit(showMarkers([s2 EXCEPT !.selectedStyle = @ \cup {id}], id),
                      [Event("shape:selected")
                          EXCEPT !.shape = Some(serialize(Get(s2.shapes, id)))])
            ELSE s2

\* ------------------------------------------------------------------ DrawingManager: drawing

\* a _cleanupDrawing that keeps the remembered snap point
cleanupDrawingKeepsSnapPoint(s) ==
    [s EXCEPT !.mapListeners = @ - s.drawingListeners,
              !.drawingListeners = 0,
              !.previewMarkers = 0]

\* _cleanupDrawing
cleanupDrawing(s) ==
    [s EXCEPT !.mapListeners = @ - s.drawingListeners,
              !.drawingListeners = 0,
              !.previewMarkers = 0,
              !.lastSnapPoint = None]

\* stopDrawing
stopDrawing(s) ==
    emit([cleanupDrawing(s) EXCEPT !.isDrawing = FALSE, !.drawingType = "",
                                   !.drawingPath = <<>>],
         Event("drawing:cancel"))

\* _setupDrawingListeners: this._drawingListeners = [click, move, dblclick]
setupDrawingListeners(s) ==
    [s EXCEPT !.mapListeners = @ + 1, !.drawingListeners = 1]

\* a startDrawing that does not stop the drawing in progress
startDrawingNoStop(s, type) ==
    LET s2 == [s EXCEPT !.isDrawing = TRUE, !.drawingType = type,
                        !.drawingPath = <<>>, !.lastSnapPoint = None]
        s3 == setupDrawingListeners(deselectShape(s2))
    IN emit(s3, [Event("drawing:start") EXCEPT !.type = type])

\* startDrawing
startDrawing(s, type) ==
    LET s1 == IF s.isDrawing THEN stopDrawing(s) ELSE s
        s2 == [s1 EXCEPT !.isDrawing = TRUE, !.drawingType = type,
                         !.drawingPath = <<>>, !.lastSnapPoint = None]
        s3 == setupDrawingListeners(deselectShape(s2))
    IN emit(s3, [Event("drawing:start") EXCEPT !.type = type])

\* the table of minimum points without the polygon's entry, so that
\* `|| 2` gives the polygon's minimum
minPointsNoPolygon(type) ==
    CASE type \in {"polyline", "circle", "rectangle"} -> 2
      [] OTHER -> 2

\* { polygon: 3, polyline: 2, circle: 2, rectangle: 2 }[type] || 2
minPoints(type) == IF type = "polygon" THEN 3 ELSE 2

\* _createShape: the shape built from the drawing path, with the next id and
\* the next default name (Math.PI is rounded to 3 on the integer grid)
createShape(s) ==
    LET id == s.idCounter + 1
        name == ShapeName(s.shapeNameCounter + 1)
        path == s.drawingPath
        base == [id |-> id, name |-> name, type |-> s.drawingType,
                 path |-> None, center |-> None, radius |-> None,
                 bounds |-> None, area |-> 0, obj |-> [path |-> None]]
    IN CASE s.drawingType = "polygon" ->
              [base EXCEPT !.path = Some(path),
                           !.area = calculatePolygonArea(path),
                           !.obj = [path |-> Some(path)]]
         [] s.drawingType = "polyline" ->
              [base EXCEPT !.path = Some(path), !.area = 0,
                           !.obj = [path |-> Some(path)]]
         [] s.drawingType = "circle" ->
              LET radius == distanceLatLng(path[1], path[2])
              IN [base EXCEPT !.center = Some(path[1]), !.radius = Some(radius),
                              !.area = 3 * radius * radius]
         [] s.drawingType = "rectangle" ->
              LET p1 == path[1]
                  p2 == path[2]
                  b == [north |-> Max(p1.lat, p2.lat), south |-> Min(p1.lat, p2.lat),
                        east |-> Max(p1.lng, p2.lng), west |-> Min(p1.lng, p2.lng)]
                  w == distanceLatLng([lat |-> b.north, lng |-> b.west],
                                      [lat |-> b.north, lng |-> b.east])
                  h == distanceLatLng([lat |-> b.south, lng |-> b.west],
                                      [lat |-> b.north, lng |-> b.west])
              IN [base EXCEPT !.bounds = Some(b), !.area = w * h]

\* counters of which only the name counter advances
createShapeCountersNameOnly(s) ==
    [s EXCEPT !.shapeNameCounter = @ + 1]

\* the counters after _createShape
createShapeCounters(s) ==
    [s EXCEPT !.idCounter = @ + 1, !.shapeNameCounter = @ + 1]

\* a _registerShape that records no history entry
registerShapeNoHistory(s, shape) ==
    LET s1 == [s EXCEPT !.shapes = MapSet(@, shape),
                        !.snapShapes = snapAddShape(@, shape.id)]
        s2 == IF IsPathType(shape.type) THEN createVertexMarkers(s1, shape.id)
              ELSE s1
        s3 == [s2 EXCEPT !.labels = @ \cup {shape.id}]
    IN emit(s3, [Event("shape:created") EXCEPT !.shape = Some(serialize(shape))])

\* _registerShape
registerShape(s, shape) ==
    LET s1 == [s EXCEPT !.shapes = MapSet(@, shape),
                        !.snapShapes = snapAddShape(@, shape.id)]
        s2 == IF IsPathType(shape.type) THEN createVertexMarkers(s1, shape.id)
              ELSE s1
        s3 == [s2 EXCEPT !.labels = @ \cup {shape.id}]
        data == serialize(shape)
        s4 == push(s3, Entry("create", shape.id, <<data>>))
    IN emit(s4, [Event("shape:created") EXCEPT !.shape = Some(data)])

\* completeDrawing
completeDrawing(s) ==
    IF ~s.isDrawing THEN s
    ELSE IF Len(s.drawingPath) < minPoints(s.drawingType) THEN s
    ELSE LET shape == createShape(s)
             s1 == registerShape(createShapeCounters(s), shape)
             s2 == emit(s1, [Event("drawing:complete")
                                EXCEPT !.shape = Some(serialize(shape))])
         IN stopDrawing(s2)

\* a _handleDrawingClick whose second circle / rectangle click only records
\* the point
handleDrawingClickRecordsOnly(s, pt) ==
    IF IsPathType(s.drawingType)
    THEN emit([s EXCEPT !.drawingPath = Append(@, pt), !.previewMarkers = @ + 1],
              [Event("drawing:update") EXCEPT !.count = Len(s.drawingPath) + 1])
    ELSE IF s.drawingType = "circle" \/ s.drawingType = "rectangle"
    THEN [s EXCEPT !.drawingPath = Append(@, pt), !.previewMarkers = @ + 1]
    ELSE s

\* _handleDrawingClick
handleDrawingClick(s, pt) ==
    IF IsPathType(s.drawingType)
    THEN emit([s EXCEPT !.drawingPath = Append(@, pt), !.previewMarkers = @ + 1],
              [Event("drawing:update") EXCEPT !.count = Len(s.drawingPath) + 1])
    ELSE IF s.drawingType = "circle" \/ s.drawingType = "rectangle"
    THEN LET s1 == [s EXCEPT !.drawingPath = Append(@, pt)]
         IN IF Len(s1.drawingPath) = 1
            THEN [s1 EXCEPT !.previewMarkers = @ + 1]
            ELSE completeDrawing(s1)
    ELSE s

\* a click listener that takes the position of the click whatever was found
drawingClickListenerRaw(s, raw) ==
    IF ~s.isDrawing THEN s ELSE handleDrawingClick(s, raw)

\* the drawing session's click listener
drawingClickListener(s, raw) ==
    IF ~s.isDrawing THEN s
    ELSE handleDrawingClick(s, IF s.lastSnapPoint # None THEN s.lastSnapPoint[1]
                                ELSE raw)

\* the map click listener set up by the constructor (a click on the map
\* itself carries no e.stop)
mapClickListener(s) == IF ~s.isDrawing THEN deselectShape(s) ELSE s

\* a click on the map: the constructor's listener runs first, then the click
\* listener of every drawing listener set registered on the map
RECURSIVE drawingClicks(_, _, _)
drawingClicks(s, raw, n) ==
    IF n = 0 THEN s ELSE drawingClicks(drawingClickListener(s, raw), raw, n - 1)

mapClick(s, raw) == drawingClicks(mapClickListener(s), raw, s.mapListeners)

\* ------------------------------------------------------------------ DrawingManager: shapes

\* a deleteShape that records nothing
deleteShapeNoEntry(s, id) == removeShape(s, id)

\* deleteShape
deleteShape(s, id) ==
    IF ~Has(s.shapes, id) THEN s
    ELSE LET data == serialize(Get(s.shapes, id))
         IN removeShape(push(s, Entry("delete", id, <<data>>)), id)

\* updateShapeName
updateShapeName(s, id, name) ==
    IF ~Has(s.shapes, id) THEN s
    ELSE LET shape == [Get(s.shapes, id) EXCEPT !.name = name]
         IN emit([s EXCEPT !.shapes = MapSet(@, shape)],
                 [Event("shape:updated") EXCEPT !.shape = Some(serialize(shape))])

\* a clearAll that records nothing
clearAllNoEntry(s) ==
    IF Len(s.shapes) = 0 THEN s
    ELSE emit(removeAll(s, KeyOrder(s.shapes)), Event("shapes:cleared"))

\* clearAll
clearAll(s) ==
    IF Len(s.shapes) = 0 THEN s
    ELSE LET all == getShapes(s)
             s1 == push(s, Entry("clear", 0, all))
         IN emit(removeAll(s1, KeyOrder(s1.shapes)), Event("shapes:cleared"))

\* DrawingManager.undo / redo: the HistoryManager's result is dropped
mgrUndo(s) == [undo(s, FALSE) EXCEPT !.mgrResult = "undefined"]

mgrRedo(s) == [redo(s, FALSE) EXCEPT !.mgrResult = "undefined"]

\* ------------------------------------------------------------------ DrawingManager: pointer and keyboard

\* the default of options.snapping.enabled
SnappingEnabled == TRUE

\* setSnapping({ enabled }): the engine is enabled or disabled with the option
setSnapping(s, enabled) == [s EXCEPT !.snapping = enabled]

\* SnapEngine.findSnapPoint(point, excludeShapeId): null when no registered
\* shape other than the excluded one offers an edge; otherwise the nearest
\* edge point within the threshold, or null.  Which it is depends on the
\* map's zoom and projection, so every point of P and null are possible.
findSnapPoint(s, excludeShapeId, P) ==
    IF ~s.snapping \/ SeqToSet(s.snapShapes) \ {excludeShapeId} = {} THEN {None}
    ELSE {None} \cup {Some(p) : p \in P}

\* the drawing session's mousemove listener; snap: what findSnapPoint returned
mouseMoveListener(s, snap) ==
    IF s.snapping
    THEN emit([s EXCEPT !.lastSnapPoint = snap],
              [Event("snap:active") EXCEPT !.active = (snap # None),
                                           !.point = snap])
    ELSE s

RECURSIVE mouseMoves(_, _, _)
\* a mousemove on the map: the listener of every drawing listener set
mouseMoves(s, snap, n) ==
    IF n = 0 THEN s ELSE mouseMoves(mouseMoveListener(s, snap), snap, n - 1)

RECURSIVE dblClicks(_, _)
\* a dblclick on the map: every drawing listener set calls completeDrawing
dblClicks(s, n) == IF n = 0 THEN s ELSE dblClicks(completeDrawing(s), n - 1)

\* the keys of a keydown event that the handler tells apart
KeyEvents ==
    {[name |-> "Ctrl+Z", key |-> "z", ctrlKey |-> TRUE, shiftKey |-> FALSE],
     [name |-> "Ctrl+Shift+Z", key |-> "z", ctrlKey |-> TRUE, shiftKey |-> TRUE],
     [name |-> "Ctrl+Y", key |-> "y", ctrlKey |-> TRUE, shiftKey |-> FALSE],
     [name |-> "Escape", key |-> "Escape", ctrlKey |-> FALSE, shiftKey |-> FALSE],
     [name |-> "Enter", key |-> "Enter", ctrlKey |-> FALSE, shiftKey |-> FALSE],
     [name |-> "Delete", key |-> "Delete", ctrlKey |-> FALSE, shiftKey |-> FALSE],
     [name |-> "Backspace", key |-> "Backspace", ctrlKey |-> FALSE,
      shiftKey |-> FALSE]}

\* a key handler without the guards of Escape, Enter and Delete / Backspace
keyHandlerUnguarded(s, e) ==
    LET s1 == IF e.ctrlKey /\ e.key = "z" /\ ~e.shiftKey THEN mgrUndo(s) ELSE s
        s2 == IF e.ctrlKey /\ (e.key = "y" \/ (e.shiftKey /\ e.key = "z"))
              THEN mgrRedo(s1) ELSE s1
        s3 == IF e.key = "Escape" THEN stopDrawing(s2) ELSE s2
        s4 == IF e.key = "Enter" THEN completeDrawing(s3) ELSE s3
    IN IF e.key = "Delete" \/ e.key = "Backspace"
       THEN deleteShape(s4, s4.selectedShapeId)
       ELSE s4

\* _keyHandler
keyHandler(s, e) ==
    LET s1 == IF e.ctrlKey /\ e.key = "z" /\ ~e.shiftKey THEN mgrUndo(s) ELSE s
        s2 == IF e.ctrlKey /\ (e.key = "y" \/ (e.shiftKey /\ e.key = "z"))
              THEN mgrRedo(s1) ELSE s1
        s3 == IF e.key = "Escape" /\ s2.isDrawing THEN stopDrawing(s2) ELSE s2
        s4 == IF e.key = "Enter" /\ s3.isDrawing THEN completeDrawing(s3) ELSE s3
    IN IF (e.key = "Delete" \/ e.key = "Backspace") /\ s4.selectedShapeId # 0
       THEN deleteShape(s4, s4.selectedShapeId)
       ELSE s4

\* ------------------------------------------------------------------ DrawingManager: handles

\* MVCArray.setAt / insertAt, with the source's 0-based index
SetAt(path, i, p) == [k \in 1..Len(path) |-> IF k = i + 1 THEN p ELSE path[k]]

InsertAt(path, i, p) == SubSeq(path, 1, i) \o <<p>> \o SubSeq(path, i + 1, Len(path))

\* the position of a midpoint handle: { (p1.lat + p2.lat) / 2, ... }; the
\* coordinates of Points are multiples of 8, which keeps the halves on the grid
Midpoint(p1, p2) ==
    [lat |-> (p1.lat + p2.lat) \div 2, lng |-> (p1.lng + p2.lng) \div 2]

\* path.getLength() edges for a polygon, one fewer for a polyline
edgeCount(shape) ==
    IF shape.type = "polygon" THEN Len(shape.obj.path[1])
    ELSE Len(shape.obj.path[1]) - 1

\* a gesture on a handle of the shape id: the vertex handle `index`, or the
\* midpoint handle of the edge `index`; insertedIndex is -1 for null
Gesture(kind, id, index) ==
    [kind |-> kind, id |-> id, index |-> index, insertedIndex |-> -1,
     detached |-> FALSE, shape |-> None]

\* the `shape` the listeners of the dragged handle closed over
dragShape(s) ==
    IF s.drag[1].detached THEN s.drag[1].shape[1] ELSE Get(s.shapes, s.drag[1].id)

\* an assignment to a field of that object
setDragShape(s, shape) ==
    IF s.drag[1].detached
    THEN [s EXCEPT !.drag = Some([@[1] EXCEPT !.shape = Some(shape)])]
    ELSE [s EXCEPT !.shapes = MapSet(@, shape)]

\* path.setAt(i, ...) on the dragged handle's shape
setPathAt(s, i, p) ==
    LET shape == dragShape(s)
    IN setDragShape(s, [shape EXCEPT !.obj.path = Some(SetAt(@[1], i, p))])

\* what the two drag listeners do with the pointer position and the snap
dragTo(s, i, pt, snap) ==
    IF snap # None
    THEN emit(setPathAt(s, i, snap[1]),
              [Event("snap:active") EXCEPT !.active = TRUE, !.point = snap])
    ELSE emit(setPathAt(s, i, pt), Event("snap:active"))

\* _updateShapeData
updateShapeData(s) ==
    LET shape == dragShape(s)
        path == shape.obj.path[1]
        shape1 == [shape EXCEPT !.path = Some(path),
                                !.area = IF shape.type = "polygon"
                                         THEN calculatePolygonArea(path) ELSE @]
        s1 == [setDragShape(s, shape1)
                  EXCEPT !.snapShapes = snapAddShape(snapRemoveShape(@, shape.id),
                                                     shape.id)]
    IN emit(s1, [Event("shape:updated") EXCEPT !.shape = Some(serialize(shape1))])

\* _rebuildMarkers; handles built for an object that has left the registry
\* are bound to that object
rebuildMarkers(s) ==
    LET shape == dragShape(s)
        wasSelected == s.selectedShapeId = shape.id
        s1 == createVertexMarkers(removeMarkers(s, shape.id), shape.id)
        s2 == IF s.drag[1].detached
              THEN [s1 EXCEPT !.staleMarkers = @ \cup {shape.id}]
              ELSE s1
        s3 == IF wasSelected THEN showMarkers(s2, shape.id) ELSE s2
    IN updateShapeData(s3)

\* a vertex handle's drag listener
vertexDrag(s, pt, snap) == dragTo(s, s.drag[1].index, pt, snap)

\* a vertex handle's dragend listener
vertexDragEnd(s) == emit(updateShapeData(s), Event("snap:active"))

\* a dragstart listener that inserts the vertex before the edge's first end
midpointDragStartBefore(s) ==
    LET shape == dragShape(s)
        path == shape.obj.path[1]
        edgeIndex == s.drag[1].index
        insertedIndex == edgeIndex
        position == Midpoint(path[edgeIndex + 1],
                             path[((edgeIndex + 1) % Len(path)) + 1])
        s1 == [s EXCEPT !.drag = Some([@[1] EXCEPT !.insertedIndex = insertedIndex])]
    IN setDragShape(s1, [shape EXCEPT !.obj.path =
                                         Some(InsertAt(path, insertedIndex, position))])

\* a midpoint handle's dragstart listener
midpointDragStart(s) ==
    LET shape == dragShape(s)
        path == shape.obj.path[1]
        edgeIndex == s.drag[1].index
        insertedIndex == edgeIndex + 1
        position == Midpoint(path[edgeIndex + 1],
                             path[((edgeIndex + 1) % Len(path)) + 1])
        s1 == [s EXCEPT !.drag = Some([@[1] EXCEPT !.insertedIndex = insertedIndex])]
    IN setDragShape(s1, [shape EXCEPT !.obj.path =
                                         Some(InsertAt(path, insertedIndex, position))])

\* a midpoint handle's drag listener
midpointDrag(s, pt, snap) ==
    IF s.drag[1].insertedIndex = -1 THEN s
    ELSE dragTo(s, s.drag[1].insertedIndex, pt, snap)

\* a midpoint handle's dragend listener
midpointDragEnd(s) ==
    LET s1 == rebuildMarkers(s)
        s2 == [s1 EXCEPT !.drag = Some([@[1] EXCEPT !.insertedIndex = -1])]
    IN emit(s2, Event("snap:active"))

\* the marker events of a gesture, dispatched to the listeners of the handle
dragStart(s, kind, id, index) ==
    LET s1 == [s EXCEPT !.drag = Some(Gesture(kind, id, index))]
    IN IF kind = "midpoint" THEN midpointDragStart(s1) ELSE s1

dragMove(s, pt, snap) ==
    IF s.drag[1].kind = "midpoint" THEN midpointDrag(s, pt, snap)
    ELSE vertexDrag(s, pt, snap)

dragEnd(s) ==
    LET s1 == IF s.drag[1].kind = "midpoint" THEN midpointDragEnd(s)
              ELSE vertexDragEnd(s)
    IN [s1 EXCEPT !.drag = None]

\* ------------------------------------------------------------------ SnapEngine
\* SpecSnap runs a SnapEngine on its own against registries with geometry.
\* Distances are kept as exact squares (a fraction n/d with d > 0), so that
\* "distance < minDistance" is decided as in the source without a square
\* root; the rounding of floating point is not modelled.  Circles need sine
\* and cosine and are left out of SpecSnap's registries.

RECURSIVE GCD(_, _)
GCD(a, b) == IF b = 0 THEN a ELSE GCD(b, a % b)

\* the fraction n/d (n >= 0, d > 0) in lowest terms
Frac(n, d) == LET g == GCD(n, d) IN [n |-> n \div g, d |-> d \div g]

FracLess(a, b) == a.n * b.d < b.n * a.d

Pow2(z) == IF z = 0 THEN 1 ELSE IF z = 1 THEN 2 ELSE 4

\* new SnapEngine({ map, threshold }); indicator: the snap marker is visible;
\* projection: map.getProjection() is available (it is null until the map
\* has loaded)
newSnapEngine(option, zoom, projection) ==
    [threshold |-> IF option = 0 THEN 15 ELSE option,
     enabled |-> TRUE,
     shapes |-> <<>>,
     indicator |-> FALSE,
     zoom |-> zoom,
     projection |-> projection]

\* Map.prototype.set / delete on this.shapes: a replaced key keeps its place
engineAddShape(e, id, type, obj) ==
    LET entry == [id |-> id, type |-> type, obj |-> obj]
    IN IF Has(e.shapes, id)
       THEN [e EXCEPT !.shapes = [i \in 1..Len(e.shapes) |->
                          IF e.shapes[i].id = id THEN entry ELSE e.shapes[i]]]
       ELSE [e EXCEPT !.shapes = Append(@, entry)]

engineRemoveShape(e, id) ==
    [e EXCEPT !.shapes = SelectSeq(@, LAMBDA x : x.id # id)]

engineEnable(e) == [e EXCEPT !.enabled = TRUE]

engineDisable(e) == [e EXCEPT !.enabled = FALSE, !.indicator = FALSE]

setThreshold(e, threshold) == [e EXCEPT !.threshold = threshold]

Edge(start, end, shapeId) == [start |-> start, end |-> end, shapeId |-> shapeId]

\* the edges one registered shape contributes, in the order they are pushed
shapeEdges(shape) ==
    CASE shape.type = "polygon" ->
           LET path == shape.obj.path
           IN [i \in 1..Len(path) |->
                 Edge(path[i], path[(i % Len(path)) + 1], shape.id)]
      [] shape.type = "polyline" ->
           LET path == shape.obj.path
           IN [i \in 1..(Len(path) - 1) |-> Edge(path[i], path[i + 1], shape.id)]
      [] shape.type = "rectangle" ->
           LET ne == shape.obj.bounds.ne
               sw == shape.obj.bounds.sw
               nw == [lat |-> ne.lat, lng |-> sw.lng]
               se == [lat |-> sw.lat, lng |-> ne.lng]
           IN <<Edge(nw, ne, shape.id), Edge(ne, se, shape.id),
                Edge(se, sw, shape.id), Edge(sw, nw, shape.id)>>
      [] OTHER -> <<>>

RECURSIVE edgesOfAll(_, _)
edgesOfAll(registry, i) ==
    IF i > Len(registry) THEN <<>>
    ELSE shapeEdges(registry[i]) \o edgesOfAll(registry, i + 1)

getAllEdgesOfAll(e, excludeId) == edgesOfAll(e.shapes, 1)

RECURSIVE edgesFrom(_, _, _)
edgesFrom(registry, i, excludeId) ==
    IF i > Len(registry) THEN <<>>
    ELSE (IF registry[i].id = excludeId THEN <<>> ELSE shapeEdges(registry[i]))
            \o edgesFrom(registry, i + 1, excludeId)

\* excludeId 0 is null: no shape has that id
getAllEdges(e, excludeId) == edgesFrom(e.shapes, 1, excludeId)

\* projection.fromLatLngToPoint and fromPointToLatLng belong to the map
\* library; the stand-in keeps what the engine relies on: the two are inverse
\* to each other and y grows to the south
fromLatLngToPoint(latLng) == [x |-> latLng.lng, y |-> 0 - latLng.lat]

\* pixel = world * 2^zoom
toPixel(latLng, scale) ==
    LET world == fromLatLngToPoint(latLng)
    IN [x |-> world.x * scale, y |-> world.y * scale]

Clamp(lo, x, hi) == IF x < lo THEN lo ELSE IF x > hi THEN hi ELSE x

\* point is (x/den, y/den); distance is the square of the pixel distance;
\* t is the clamped parameter
projectPointToSegment(point, lineStart, lineEnd) ==
    LET dx == lineEnd.x - lineStart.x
        dy == lineEnd.y - lineStart.y
        lengthSquared == dx * dx + dy * dy
    IN IF lengthSquared = 0
       THEN [point |-> [x |-> lineStart.x, y |-> lineStart.y, den |-> 1],
             distance |-> Frac((point.x - lineStart.x) * (point.x - lineStart.x)
                               + (point.y - lineStart.y) * (point.y - lineStart.y), 1),
             t |-> Frac(0, 1)]
       ELSE LET dot == (point.x - lineStart.x) * dx + (point.y - lineStart.y) * dy
                tn == Clamp(0, dot, lengthSquared)
                px == lineStart.x * lengthSquared + tn * dx
                py == lineStart.y * lengthSquared + tn * dy
                ex == point.x * lengthSquared - px
                ey == point.y * lengthSquared - py
            IN [point |-> [x |-> px, y |-> py, den |-> lengthSquared],
                distance |-> Frac(ex * ex + ey * ey, lengthSquared * lengthSquared),
                t |-> Frac(tn, lengthSquared)]

\* utils/geometry.js, distancePixels: Math.sqrt(dx * dx + dy * dy), kept as
\* its square like every distance; p2 is (x/den, y/den) and p1 is whole
distancePixels(p1, p2) ==
    LET dx == p2.x - p1.x * p2.den
        dy == p2.y - p1.y * p2.den
    IN Frac(dx * dx + dy * dy, p2.den * p2.den)

\* a projectPointToLine that does not clamp t
projectPointToLineUnclamped(point, lineStart, lineEnd) ==
    LET dx == lineEnd.x - lineStart.x
        dy == lineEnd.y - lineStart.y
        lengthSquared == dx * dx + dy * dy
    IN IF lengthSquared = 0
       THEN LET at == [x |-> lineStart.x, y |-> lineStart.y, den |-> 1]
            IN [point |-> at, distance |-> distancePixels(point, at), t |-> Frac(0, 1)]
       ELSE LET tn == (point.x - lineStart.x) * dx + (point.y - lineStart.y) * dy
                projected == [x |-> lineStart.x * lengthSquared + tn * dx,
                              y |-> lineStart.y * lengthSquared + tn * dy,
                              den |-> lengthSquared]
            IN [point |-> projected,
                distance |-> distancePixels(point, projected),
                t |-> [n |-> tn, d |-> lengthSquared]]

\* utils/geometry.js, projectPointToLine
projectPointToLine(point, lineStart, lineEnd) ==
    LET dx == lineEnd.x - lineStart.x
        dy == lineEnd.y - lineStart.y
        lengthSquared == dx * dx + dy * dy
    IN IF lengthSquared = 0
       THEN LET at == [x |-> lineStart.x, y |-> lineStart.y, den |-> 1]
            IN [point |-> at, distance |-> distancePixels(point, at), t |-> Frac(0, 1)]
       ELSE LET dot == (point.x - lineStart.x) * dx + (point.y - lineStart.y) * dy
                tn == Max(0, Min(lengthSquared, dot))
                projected == [x |-> lineStart.x * lengthSquared + tn * dx,
                              y |-> lineStart.y * lengthSquared + tn * dy,
                              den |-> lengthSquared]
            IN [point |-> projected,
                distance |-> distancePixels(point, projected),
                t |-> Frac(tn, lengthSquared)]

\* projectedWorld = pixel / scale, then projection.fromPointToLatLng
fromPixel(pixel, scale) ==
    [lat |-> 0 - pixel.y, lng |-> pixel.x, den |-> pixel.den * scale]

initialMinDistanceWide(e) == Frac((e.threshold + 1) * (e.threshold + 1), 1)

\* the initial bound of the search: minDistance = this.threshold
initialMinDistance(e) == Frac(e.threshold * e.threshold, 1)

notFarther(distance, minDistance) == ~FracLess(minDistance, distance)

\* if (projected.distance < minDistance)
closer(distance, minDistance) == FracLess(distance, minDistance)

\* the loop over the edges, from edge i on: best is bestSnap, conversions
\* counts the calls of fromLatLngToPoint and fromPointToLatLng
RECURSIVE searchEdges(_, _, _, _, _, _)
searchEdges(edges, i, pointPixel, scale, minDistance, acc) ==
    IF i > Len(edges) THEN acc
    ELSE LET edge == edges[i]
             projected == projectPointToSegment(pointPixel,
                              toPixel(edge.start, scale), toPixel(edge.end, scale))
         IN IF closer(projected.distance, minDistance)
            THEN searchEdges(edges, i + 1, pointPixel, scale, projected.distance,
                     [best |-> Some([point |-> fromPixel(projected.point, scale),
                                     distance |-> projected.distance,
                                     edge |-> edge,
                                     t |-> projected.t]),
                      conversions |-> acc.conversions + 3])
            ELSE searchEdges(edges, i + 1, pointPixel, scale, minDistance,
                     [acc EXCEPT !.conversions = @ + 2])

NoSnap(conversions) == [best |-> None, conversions |-> conversions]

searchSnapPointUnguarded(e, point, excludeShapeId) ==
    LET edges == getAllEdges(e, excludeShapeId)
        scale == Pow2(e.zoom)
    IN searchEdges(edges, 1, toPixel(point, scale), scale,
                   initialMinDistance(e), NoSnap(1))

\* the search of findSnapPoint: the result (None = null) and the number of
\* coordinate conversions the call made
searchSnapPoint(e, point, excludeShapeId) ==
    IF ~e.enabled \/ Len(e.shapes) = 0 THEN NoSnap(0)
    ELSE LET edges == getAllEdges(e, excludeShapeId)
         IN IF Len(edges) = 0 THEN NoSnap(0)
            ELSE IF ~e.projection THEN NoSnap(0)
            ELSE LET scale == Pow2(e.zoom)
                     pointPixel == toPixel(point, scale)
                 IN searchEdges(edges, 1, pointPixel, scale,
                                initialMinDistance(e), NoSnap(1))

\* findSnapPoint with the geometry: the search, then the indicator is shown
\* on a snap and hidden when the loop found none (the early returns leave it
\* as it is); engine is the engine after the call
findSnapPointIn(e, point, excludeShapeId) ==
    LET outcome == searchSnapPoint(e, point, excludeShapeId)
    IN [best |-> outcome.best,
        conversions |-> outcome.conversions,
        engine |-> IF outcome.best # None THEN [e EXCEPT !.indicator = TRUE]
                   ELSE IF outcome.conversions > 0 THEN [e EXCEPT !.indicator = FALSE]
                   ELSE e]

\* the drag listeners of a shape's handles: snapEngine.findSnapPoint(newPos,
\* shape.id)
handleSnapQuery(e, shapeId, point) == findSnapPointIn(e, point, shapeId)

\* a call as `found` keeps it: by is the caller ("api", or "drag" for the
\* handle listeners, which pass the id of the shape they belong to)
Query(by, point, excludeShapeId, dragged, outcome) ==
    [by |-> by, point |-> point, excludeShapeId |-> excludeShapeId,
     dragged |-> dragged, result |-> outcome.best,
     conversions |-> outcome.conversions]

NoQuery == Query("none", [lat |-> 0, lng |-> 0], 0, 0, NoSnap(0))


\* the inputs of a projection and what each of the two functions returned
\* for them (None: not called yet)
Probe(point, lineStart, lineEnd) ==
    [point |-> point, lineStart |-> lineStart, lineEnd |-> lineEnd,
     segment |-> None, line |-> None]

NoProbe == Probe([x |-> 0, y |-> 0], [x |-> 0, y |-> 0], [x |-> 0, y |-> 0])

SnapEngineUnused ==
    /\ engine = newSnapEngine(0, 0, TRUE)
    /\ found = NoQuery
    /\ probe = NoProbe

\* ------------------------------------------------------------------ SpecHistory: a HistoryManager on its own

DrawingManagerIdle ==
    /\ shapes = <<>>
    /\ selectedShapeId = 0
    /\ isDrawing = FALSE
    /\ drawingType = ""
    /\ drawingPath = <<>>
    /\ lastSnapPoint = None
    /\ idCounter = 0
    /\ shapeNameCounter = 0
    /\ drawingListeners = 0
    /\ mapListeners = 0
    /\ previewMarkers = 0
    /\ snapShapes = <<>>
    /\ snapping = SnappingEnabled
    /\ vertexMarkers = {}
    /\ visibleMarkers = {}
    /\ labels = {}
    /\ selectedStyle = {}
    /\ staleMarkers = {}
    /\ drag = None
    /\ listeners = <<>>

\* the DrawingManager is used without the composable
NoComposable == glue = None

Observed0 ==
    /\ events = <<>>
    /\ invoked = <<>>
    /\ calls = <<>>
    /\ result = "none"
    /\ dropped = NoneDropped
    /\ mgrResult = "none"
    /\ lastOp = "new"
    /\ prev = [op |-> "new", dropped |-> NoneDropped]

\* new HistoryManager({ maxSteps, onChange })
InitHistory ==
    /\ \E option \in MaxStepsOptions : maxSteps = constructorMaxSteps(option)
    /\ history = <<>>
    /\ currentIndex = -1
    /\ nextId = 1
    /\ DrawingManagerIdle
    /\ NoComposable
    /\ SnapEngineUnused
    /\ Observed0

\* the state a call on the stand-alone manager starts from
BeginH(op) == [Begin(op) EXCEPT !.prev = [op |-> lastOp, dropped |-> dropped]]

HPush ==
    /\ nextId <= MaxPushes
    /\ Commit([push(BeginH("push"), Entry("opaque", nextId, <<>>))
                  EXCEPT !.nextId = @ + 1])

HUndo == \E throws \in BOOLEAN : Commit(undo(BeginH("undo"), throws))

HRedo == \E throws \in BOOLEAN : Commit(redo(BeginH("redo"), throws))

HClear == Commit(clear(BeginH("clear")))

NextHistory == HPush \/ HUndo \/ HRedo \/ HClear

SpecHistory == InitHistory /\ [][NextHistory]_vars

\* ------------------------------------------------------------------ Spec: a DrawingManager

\* new DrawingManager(map, { history: { maxSteps } })
Init ==
    /\ \E option \in MaxStepsOptionsMgr : maxSteps = constructorMaxSteps(option)
    /\ history = <<>>
    /\ currentIndex = -1
    /\ nextId = 1
    /\ DrawingManagerIdle
    /\ NoComposable
    /\ SnapEngineUnused
    /\ Observed0

\* the bounds of the model: a further shape may be created (n shapes at
\* most), and the log has room for the entry a recording operation pushes
\* (m entries at most)
ShapeRoom(n) == idCounter < n

LogRoom(m) == Min(currentIndex + 2, maxSteps) <= m

\* a completion now would register a shape
WouldComplete == isDrawing /\ Len(drawingPath) >= minPoints(drawingType)

StartDrawing(n) ==
    /\ ShapeRoom(n)
    /\ \E type \in ShapeTypes : Commit(startDrawing(Begin("startDrawing"), type))

StopDrawing == Commit(stopDrawing(Begin("stopDrawing")))

CompleteDrawing(m) ==
    /\ WouldComplete => LogRoom(m)
    /\ Commit(completeDrawing(Begin("completeDrawing")))

MapClick(P, m) ==
    \E raw \in P :
        /\ (isDrawing /\ IsPathType(drawingType)) => Len(drawingPath) < MaxPath
        /\ (isDrawing /\ ~IsPathType(drawingType) /\ Len(drawingPath) >= 1)
              => LogRoom(m)
        /\ Commit(mapClick(Begin("click"), raw))

\* a mousemove on the map while a drawing listener set is registered
MouseMove(P) ==
    /\ mapListeners > 0
    /\ \E snap \in findSnapPoint(Cur, 0, P) :
          Commit(mouseMoves(Begin("mousemove"), snap, mapListeners))

\* a dblclick on the map while a drawing listener set is registered
DblClick(m) ==
    /\ mapListeners > 0
    /\ WouldComplete => LogRoom(m)
    /\ Commit(dblClicks(Begin("dblclick"), mapListeners))

\* a keydown on the document
KeyDown(m) ==
    \E e \in KeyEvents :
        /\ (e.key = "Enter" /\ WouldComplete) => LogRoom(m)
        /\ (e.key \in {"Delete", "Backspace"} /\ Has(shapes, selectedShapeId))
              => LogRoom(m)
        /\ Commit(keyHandler(Begin(e.name), e))

DeleteShape(n, m) ==
    \E id \in 1..n :
        /\ Has(shapes, id) => LogRoom(m)
        /\ Commit(deleteShape(Begin("deleteShape"), id))

UpdateShapeName(n) ==
    \E id \in 1..n, name \in UserNames :
        Commit(updateShapeName(Begin("updateShapeName"), id, name))

ClearAll(m) ==
    /\ Len(shapes) > 0 => LogRoom(m)
    /\ Commit(clearAll(Begin("clearAll")))

SelectShape(n) == \E id \in 1..n : Commit(selectShape(Begin("selectShape"), id))

DeselectShape == Commit(deselectShape(Begin("deselectShape")))

Undo == Commit(mgrUndo(Begin("undo")))

Redo == Commit(mgrRedo(Begin("redo")))

\* the user takes hold of a visible handle of a registered shape: a vertex
\* handle, or the midpoint handle of an edge while the path may still grow
DragStart ==
    /\ drag = None
    /\ \E id \in visibleMarkers \ staleMarkers :
          /\ Has(shapes, id)
          /\ LET shape == Get(shapes, id)
             IN \/ \E index \in 0..(Len(shape.obj.path[1]) - 1) :
                      Commit(dragStart(Begin("dragstart"), "vertex", id, index))
                \/ /\ Len(shape.obj.path[1]) < MaxVertices
                   /\ \E index \in 0..(edgeCount(shape) - 1) :
                         Commit(dragStart(Begin("dragstart"), "midpoint", id, index))

\* the handle held moves with the pointer
Drag(P) ==
    /\ drag # None
    /\ \E pt \in P :
          \E snap \in (IF snapping THEN findSnapPoint(Cur, drag[1].id, P)
                       ELSE {None}) :
              Commit(dragMove(Begin("drag"), pt, snap))

\* the handle held is released
DragEnd ==
    /\ drag # None
    /\ Commit(dragEnd(Begin(IF drag[1].kind = "midpoint" THEN "midpoint dragend"
                           ELSE "vertex dragend")))

\* the calls of the DrawingManager's methods and the map clicks, with the
\* pointer on the points P, at most n shapes created and at most m entries in
\* the log
NextOf(P, n, m) ==
    \/ StartDrawing(n)
    \/ StopDrawing
    \/ CompleteDrawing(m)
    \/ MapClick(P, m)
    \/ DeleteShape(n, m)
    \/ UpdateShapeName(n)
    \/ ClearAll(m)
    \/ SelectShape(n)
    \/ DeselectShape
    \/ Undo
    \/ Redo

\* Spec: one pointer position
Next == NextOf(Origin, MaxShapes, MaxLog)

Spec == Init /\ [][Next]_vars

\* SpecGeo: the pointer on a grid of points, so that shapes of one type differ
\* in geometry
NextGeo == NextOf(Points, MaxShapesGeo, MaxLog)

SpecGeo == Init /\ [][NextGeo]_vars

\* SpecInput: Spec's steps, mouse moves, double clicks and key presses
NextInput ==
    \/ NextOf(Origin, MaxShapes, MaxLog)
    \/ MouseMove(Origin)
    \/ DblClick(MaxLog)
    \/ KeyDown(MaxLog)

SpecInput == Init /\ [][NextInput]_vars

\* SpecTwo: one pointer position, two shapes, mouse moves
NextTwo ==
    \/ NextOf(Origin, MaxShapesTwo, MaxLogTwo)
    \/ MouseMove(Origin)

SpecTwo == Init /\ [][NextTwo]_vars

\* SpecEdit: a session of drawing on one point, selecting, undoing and
\* redoing, with gestures that take the handles of the shape to the points of
\* the grid
NextEdit ==
    \/ StartDrawing(MaxShapesEdit)
    \/ MapClick(Origin, MaxLogEdit)
    \/ CompleteDrawing(MaxLogEdit)
    \/ SelectShape(MaxShapesEdit)
    \/ DeselectShape
    \/ Undo
    \/ Redo
    \/ DragStart
    \/ Drag(Points)
    \/ DragEnd

SpecEdit == Init /\ [][NextEdit]_vars

\* ------------------------------------------------------------------ SpecSnap: a SnapEngine on its own

\* the thresholds given to the constructor (0: none given) and to setThreshold
ThresholdOptions == {0, 1, 2}

Zooms == {0, 1}

SnapPoints == {[lat |-> a, lng |-> b] : a, b \in 0..MaxCoord}

\* the map objects registered: a triangle, an open line along one of its
\* edges, a line whose two points coincide, and a rectangle
SnapObjects ==
    {[type |-> "polygon",
      obj |-> [path |-> <<[lat |-> 0, lng |-> 0], [lat |-> 0, lng |-> 4],
                          [lat |-> 4, lng |-> 0]>>]],
     [type |-> "polyline",
      obj |-> [path |-> <<[lat |-> 0, lng |-> 0], [lat |-> 0, lng |-> 4]>>]],
     [type |-> "polyline",
      obj |-> [path |-> <<[lat |-> 2, lng |-> 2], [lat |-> 2, lng |-> 2]>>]],
     [type |-> "rectangle",
      obj |-> [bounds |-> [ne |-> [lat |-> 2, lng |-> 2],
                           sw |-> [lat |-> 0, lng |-> 0]]]]}

InitSnap ==
    /\ \E option \in MaxStepsOptionsMgr : maxSteps = constructorMaxSteps(option)
    /\ history = <<>>
    /\ currentIndex = -1
    /\ nextId = 1
    /\ DrawingManagerIdle
    /\ NoComposable
    /\ \E option \in ThresholdOptions, zoom \in Zooms, projection \in BOOLEAN :
          engine = newSnapEngine(option, zoom, projection)
    /\ found = NoQuery
    /\ probe = NoProbe
    /\ Observed0

\* a call on the engine: e is the engine after it, q the query it answered
SnapStep(op, e, q) == Commit([Begin(op) EXCEPT !.engine = e, !.found = q])

EngineAddShape ==
    \E id \in 1..MaxSnapShapes, o \in SnapObjects :
        SnapStep("addShape", engineAddShape(engine, id, o.type, o.obj), NoQuery)

EngineRemoveShape ==
    \E id \in 1..MaxSnapShapes :
        SnapStep("removeShape", engineRemoveShape(engine, id), NoQuery)

EngineEnable == SnapStep("enable", engineEnable(engine), NoQuery)

EngineDisable == SnapStep("disable", engineDisable(engine), NoQuery)

EngineSetThreshold ==
    \E threshold \in ThresholdOptions \ {0} :
        SnapStep("setThreshold", setThreshold(engine, threshold), NoQuery)

FindSnapPoint ==
    \E point \in SnapPoints, excludeShapeId \in 0..MaxSnapShapes :
        LET outcome == findSnapPointIn(engine, point, excludeShapeId)
        IN SnapStep("findSnapPoint", outcome.engine,
                    Query("api", point, excludeShapeId, 0, outcome))

\* a drag move of a handle of a registered polygon or polyline
HandleSnapQuery ==
    \E i \in 1..Len(engine.shapes), point \in SnapPoints :
        /\ engine.shapes[i].type \in {"polygon", "polyline"}
        /\ LET id == engine.shapes[i].id
               outcome == handleSnapQuery(engine, id, point)
           IN SnapStep("drag", outcome.engine, Query("drag", point, id, id, outcome))

NextSnap ==
    \/ EngineAddShape
    \/ EngineRemoveShape
    \/ EngineEnable
    \/ EngineDisable
    \/ EngineSetThreshold
    \/ FindSnapPoint
    \/ HandleSnapQuery

SpecSnap == InitSnap /\ [][NextSnap]_vars

\* ------------------------------------------------------------------ SpecPointer: snapping while drawing
\* The clicks are at Origin and the pointer moves may find a snap point at
\* either of Points, so that a snapped click can be told from a raw one.

NextPointer ==
    \/ StartDrawing(MaxShapesTwo)
    \/ StopDrawing
    \/ CompleteDrawing(MaxLogTwo)
    \/ MapClick(Origin, MaxLogTwo)
    \/ MouseMove(Points)

SpecPointer == Init /\ [][NextPointer]_vars

\* ------------------------------------------------------------------ SpecSnapping: snapping switched on and off
\* SpecPointer with setSnapping({ enabled }).

SetSnapping ==
    \E enabled \in BOOLEAN : Commit(setSnapping(Begin("setSnapping"), enabled))

NextSnapping == NextPointer \/ SetSnapping

SpecSnapping == Init /\ [][NextSnapping]_vars

\* ------------------------------------------------------------------ SpecBus: a DrawingManager with subscribers
\* Subscribers' callbacks return or throw and do nothing else.

ListenEvents == {"shape:created", "drawing:complete"}

On ==
    /\ Len(listeners) < MaxListeners
    /\ \E event \in ListenEvents, throws \in BOOLEAN :
          Commit(on(Begin("on"), event, throws))

Off == \E i \in 1..Len(listeners) : Commit(off(Begin("off"), i))

NextBus ==
    \/ On
    \/ Off
    \/ StartDrawing(MaxShapes)
    \/ StopDrawing
    \/ CompleteDrawing(MaxLog)
    \/ MapClick(Origin, MaxLog)
    \/ Undo
    \/ Redo

SpecBus == Init /\ [][NextBus]_vars

\* ------------------------------------------------------------------ SpecPaths: editing, deleting and clearing
\* Every click and every drag is at Origin: the paths differ in their length
\* only, which leaves room for a log of MaxLog entries.

NextPaths ==
    \/ StartDrawing(MaxShapesEdit)
    \/ MapClick(Origin, MaxLog)
    \/ CompleteDrawing(MaxLog)
    \/ SelectShape(MaxShapesEdit)
    \/ DeleteShape(MaxShapesEdit, MaxLog)
    \/ ClearAll(MaxLog)
    \/ Undo
    \/ Redo
    \/ DragStart
    \/ Drag(Origin)
    \/ DragEnd

SpecPaths == Init /\ [][NextPaths]_vars

\* ------------------------------------------------------------------ SpecProject: the two segment projections
\* The inputs are drawn once; each of the two functions is then applied to
\* them.

Pixels == {[x |-> a, y |-> b] : a, b \in (0 - MaxPixel)..MaxPixel}

InitProject ==
    /\ \E option \in MaxStepsOptionsMgr : maxSteps = constructorMaxSteps(option)
    /\ history = <<>>
    /\ currentIndex = -1
    /\ nextId = 1
    /\ DrawingManagerIdle
    /\ NoComposable
    /\ engine = newSnapEngine(0, 0, TRUE)
    /\ found = NoQuery
    /\ \E point \in Pixels, lineStart \in Pixels, lineEnd \in Pixels :
          probe = Probe(point, lineStart, lineEnd)
    /\ Observed0

ProjectPointToSegment ==
    Commit([Begin("_projectPointToSegment") EXCEPT !.probe.segment =
        Some(projectPointToSegment(probe.point, probe.lineStart, probe.lineEnd))])

ProjectPointToLine ==
    Commit([Begin("projectPointToLine") EXCEPT !.probe.line =
        Some(projectPointToLine(probe.point, probe.lineStart, probe.lineEnd))])

NextProject == ProjectPointToSegment \/ ProjectPointToLine

SpecProject == InitProject /\ [][NextProject]_vars

\* ------------------------------------------------------------------ SpecGlue
\* SpecGlue: the DrawingManager as useMapDrawing creates it, with the
\* composable's listeners subscribed, driven through the composable's
\* methods and the map

InitGlue ==
    /\ \E option \in MaxStepsOptionsMgr : maxSteps = constructorMaxSteps(option)
    /\ history = <<>>
    /\ currentIndex = -1
    /\ nextId = 1
    /\ DrawingManagerIdle
    /\ glue = Some(useMapDrawing)
    /\ SnapEngineUnused
    /\ Observed0

\* deleteActiveShape: if (activeShape.value) manager.deleteShape(activeShape.value.id)
deleteActiveShape(s) ==
    IF s.glue[1].activeShape # None
    THEN deleteShape(s, s.glue[1].activeShape[1].id)
    ELSE s

DeleteActiveShape(m) ==
    /\ (glue[1].activeShape # None /\ Has(shapes, glue[1].activeShape[1].id))
          => LogRoom(m)
    /\ Commit(deleteActiveShape(Begin("deleteActiveShape")))

NextGlue ==
    \/ NextOf(Origin, MaxShapes, MaxLog)
    \/ DeleteActiveShape(MaxLog)

SpecGlue == InitGlue /\ [][NextGlue]_vars

\* ================================================================== claims

\* the events named `name` among those of the last operation
Named(evs, name) == SelectSeq(evs, LAMBDA e : e.name = name)

\* the state of the program: every variable but the record of what the last
\* operation was, emitted, called, dropped and returned
program ==
    <<maxSteps, history, currentIndex, shapes, selectedShapeId, isDrawing,
      drawingType, drawingPath, lastSnapPoint, idCounter, shapeNameCounter,
      drawingListeners, mapListeners, previewMarkers, snapShapes, snapping,
      vertexMarkers, visibleMarkers, labels, selectedStyle, staleMarkers, drag,
      engine, listeners>>

\* ------------------------------------------------------------------ C1

\* C1: in every state reachable by push, undo, redo and clear calls (also
\* when an undo or redo callback throws), -1 <= currentIndex <= length - 1.
C1_IndexInRange == -1 <= currentIndex /\ currentIndex <= Len(history) - 1

\* a push has just evicted the oldest entry of a full log, right after an
\* undo that left the index at the tail because its callback threw
C1_Witness ==
    /\ lastOp = "push"
    /\ dropped.evicted # <<>>
    /\ prev.op = "undo"
    /\ currentIndex = Len(history) - 1

\* ------------------------------------------------------------------ C2

\* C2: a push made after k >= 1 undos leaves the pushed entry last in the
\* log and none of the undone entries in it, and a redo() that follows the
\* push returns false, invokes no callback and changes nothing.
C2_PushDiscardsRedoBranch ==
    [][/\ (lastOp' = "push" /\ currentIndex < Len(history) - 1)
            => LET undone == {history[i] : i \in (currentIndex + 2)..Len(history)}
               IN /\ history'[Len(history')].id = nextId
                  /\ currentIndex' = Len(history') - 1
                  /\ \A e \in undone : e \notin SeqToSet(history')
       /\ (lastOp = "push" /\ lastOp' = "redo")
            => /\ result' = "false"
               /\ calls' = <<>>
               /\ events' = <<>>
               /\ history' = history
               /\ currentIndex' = currentIndex]_vars

\* a redo has just failed right after a push that discarded undone entries
C2_Witness ==
    /\ lastOp = "redo"
    /\ result = "false"
    /\ prev.op = "push"
    /\ prev.dropped.truncated # <<>>
    /\ Len(history) >= 2

\* ------------------------------------------------------------------ C3

\* C3: the log never holds more than maxSteps entries; a push made with the
\* log full and the index at the tail removes exactly the oldest entry,
\* keeps the others in order and leaves the index on the pushed entry, the
\* last one.
C3_Bounded ==
    /\ [](Len(history) <= maxSteps)
    /\ [][(lastOp' = "push" /\ Len(history) = maxSteps
              /\ currentIndex = Len(history) - 1)
            => /\ history' = Append(Tail(history), history'[Len(history')])
               /\ history'[Len(history')].id = nextId
               /\ Len(history') = maxSteps
               /\ currentIndex' = Len(history') - 1]_vars

\* a push on a full log of more than one entry has evicted the oldest
C3_Witness ==
    /\ lastOp = "push"
    /\ dropped.evicted # <<>>
    /\ dropped.truncated = <<>>
    /\ Len(history) = maxSteps
    /\ maxSteps >= 2

\* ------------------------------------------------------------------ C4

\* C4: canUndo is true exactly when currentIndex >= 0 and canRedo exactly
\* when currentIndex < length - 1, and canRedo is false right after every
\* push.
C4_CanUndoCanRedo ==
    /\ canUndo(Cur) <=> currentIndex >= 0
    /\ canRedo(Cur) <=> currentIndex < Len(history) - 1
    /\ lastOp = "push" => ~canRedo(Cur)

\* a push made while a redo was possible: canRedo is false, canUndo true
C4_Witness ==
    /\ lastOp = "push"
    /\ dropped.truncated # <<>>
    /\ canUndo(Cur)
    /\ ~canRedo(Cur)

\* ------------------------------------------------------------------ C5

\* C5: an undo() whose callback throws returns false, leaves currentIndex
\* and the log as they were and sends no notification.
C5_UndoThrows ==
    [][(lastOp' = "undo" /\ calls' # <<>> /\ calls'[1].threw)
          => /\ currentIndex >= 0
             /\ result' = "false"
             /\ currentIndex' = currentIndex
             /\ history' = history
             /\ events' = <<>>]_vars

\* an undo with an entry to undo has just failed on a throwing callback
C5_Witness ==
    /\ lastOp = "undo"
    /\ Len(calls) = 1
    /\ calls[1].threw
    /\ calls[1].kind = "undo"
    /\ result = "false"
    /\ currentIndex >= 0

\* ------------------------------------------------------------------ C6

\* C6: a redo() whose callback throws returns false and leaves currentIndex
\* at its value before the call; the callback ran with the index advanced by
\* one; no notification is sent.
C6_RedoThrows ==
    [][(lastOp' = "redo" /\ calls' # <<>> /\ calls'[1].threw)
          => /\ currentIndex < Len(history) - 1
             /\ calls'[1].index = currentIndex + 1
             /\ result' = "false"
             /\ currentIndex' = currentIndex
             /\ history' = history
             /\ events' = <<>>]_vars

\* a redo of a redoable entry has just failed on a throwing callback
C6_Witness ==
    /\ lastOp = "redo"
    /\ Len(calls) = 1
    /\ calls[1].threw
    /\ calls[1].kind = "redo"
    /\ result = "false"
    /\ currentIndex < Len(history) - 1

\* ------------------------------------------------------------------ C7

C8_OneNotification(lengthField) ==
    /\ Len(Named(events, "history:change")) = 1
    /\ LET state == Named(events, "history:change")[1].state[1]
       IN /\ state.canUndo = (currentIndex >= 0)
          /\ state.canRedo = (currentIndex < Len(history) - 1)
          /\ state.currentIndex = currentIndex
          /\ lengthField \in DOMAIN state
          /\ state[lengthField] = Len(history)

C8_Notifies(lengthField) ==
    /\ (lastOp = "push" \/ (lastOp \in {"undo", "redo"} /\ result = "true"))
          => C8_OneNotification(lengthField)
    /\ (lastOp \in {"undo", "redo"} /\ result = "false")
          => Named(events, "history:change") = <<>>

C9_DrawCompleteUndo ==
    [][/\ (lastOp' = "completeDrawing" /\ isDrawing /\ drawingType = "polygon"
              /\ Len(drawingPath) = 3 /\ shapes = <<>> /\ history = <<>>)
            => /\ Len(Named(events', "shape:created")) = 1
               /\ Len(shapes') = 1
               /\ Named(events', "shape:created")[1].shape[1].id = shapes'[1].id
               /\ shapes'[1].path = Some(drawingPath)
               /\ Len(history') = 1
               /\ currentIndex' >= 0
               /\ ~isDrawing'
       /\ (lastOp = "completeDrawing" /\ Len(shapes) = 1 /\ Len(history) = 1
              /\ lastOp' = "undo")
            => /\ Len(Named(events', "shape:deleted")) = 1
               /\ Named(events', "shape:deleted")[1].id = shapes[1].id
               /\ shapes' = <<>>
               /\ currentIndex' < 0
               /\ result' = "true"]_vars

\* the creation of the session's only shape, a polygon, has just been undone
C9_Witness ==
    /\ lastOp = "undo"
    /\ result = "true"
    /\ Len(history) = 1
    /\ history[1].type = "create"
    /\ history[1].data[1].type = "polygon"
    /\ Len(history[1].data[1].path[1]) = 3
    /\ currentIndex = -1
    /\ shapes = <<>>
    /\ Len(Named(events, "shape:deleted")) = 1

\* ------------------------------------------------------------------ C10

\* id, name, type and geometry of a shape or of a snapshot
Identity(x) ==
    [id |-> x.id, name |-> x.name, type |-> x.type, path |-> x.path,
     center |-> x.center, radius |-> x.radius, bounds |-> x.bounds]

\* C10: deleteShape(id) records the shape as it is at that moment, and an
\* undo() right after emits one shape:created whose snapshot has the id,
\* name, type and geometry the shape had before the deletion; the registry
\* holds that id again, with the same id, name, type and geometry.
C10_DeleteUndoRestores ==
    [][/\ (lastOp' = "deleteShape" /\ shapes' # shapes)
            => \E id \in Ids(shapes) :
                  /\ ~Has(shapes', id)
                  /\ currentIndex' = Len(history') - 1
                  /\ history'[Len(history')].type = "delete"
                  /\ history'[Len(history')].id = id
                  /\ Identity(history'[Len(history')].data[1])
                        = Identity(Get(shapes, id))
       /\ (lastOp = "deleteShape" /\ Named(events, "shape:deleted") # <<>>
              /\ lastOp' = "undo")
            => LET was == history[currentIndex + 1].data[1]
               IN /\ Len(Named(events', "shape:created")) = 1
                  /\ Identity(Named(events', "shape:created")[1].shape[1])
                        = Identity(was)
                  /\ Has(shapes', was.id)
                  /\ Identity(Get(shapes', was.id)) = Identity(was)]_vars

\* the deletion of a renamed circle of non-zero radius has just been undone
C10_Witness ==
    /\ lastOp = "undo"
    /\ result = "true"
    /\ currentIndex + 2 <= Len(history)
    /\ history[currentIndex + 2].type = "delete"
    /\ Len(shapes) = 1
    /\ shapes[1].type = "circle"
    /\ shapes[1].name \in UserNames
    /\ shapes[1].radius # Some(0)
    /\ Len(Named(events, "shape:created")) = 1
    /\ Named(events, "shape:created")[1].shape[1].name \in UserNames

\* ------------------------------------------------------------------ C11

\* the path of the registered shape id
PathOf(map, id) == Get(map, id).path[1]

\* C11: the release that ends a midpoint-handle gesture on a registered
\* polygon or polyline leaves the log one entry longer than it was, the
\* index on that entry, and an undo() right after leaves the shape
\* registered with the inserted vertex removed.
C11_MidpointGestureRecorded ==
    [][/\ (lastOp' = "midpoint dragend" /\ drag # None /\ ~drag[1].detached)
            => /\ Len(history') = Len(history) + 1
               /\ currentIndex' = Len(history') - 1
       /\ (lastOp = "midpoint dragend" /\ Len(shapes) = 1 /\ lastOp' = "undo")
            => /\ Len(shapes') = 1
               /\ Len(shapes'[1].path[1]) = Len(shapes[1].path[1]) - 1]_vars

\* ------------------------------------------------------------------ C12

\* C12: the release that ends a vertex-handle gesture on a registered shape
\* leaves the log one entry longer than it was and the index on that entry;
\* a drag move leaves the log as it was.
C12_VertexGestureRecorded ==
    [][/\ (lastOp' = "vertex dragend" /\ drag # None /\ ~drag[1].detached)
            => /\ Len(history') = Len(history) + 1
               /\ currentIndex' = Len(history') - 1
       /\ lastOp' = "drag"
            => /\ history' = history
               /\ currentIndex' = currentIndex]_vars

\* ------------------------------------------------------------------ C13

\* a sequence without its element at the 0-based index i
RemoveAt(seq, i) == SubSeq(seq, 1, i) \o SubSeq(seq, i + 2, Len(seq))

\* between gestures the path recorded for a shape is the path of its object
PathsInSync ==
    drag = None =>
        \A k \in 1..Len(shapes) :
            IsPathType(shapes[k].type) => shapes[k].path = shapes[k].obj.path

\* C13: between gestures a shape's recorded path is its object's path, and
\* the release that ends a gesture on the midpoint handle of edge i of a
\* registered shape with n path vertices leaves the path with n + 1
\* vertices, of which the one at index i + 1 is the vertex the gesture
\* carried and the others are the former vertices in their order.
C13_MidpointInsertsOne ==
    /\ []PathsInSync
    /\ [][(lastOp' = "midpoint dragend" /\ drag # None /\ ~drag[1].detached)
            => LET id == drag[1].id
                   i == drag[1].index
                   old == PathOf(shapes, id)
                   carried == Get(shapes, id).obj.path[1][i + 2]
                   new == PathOf(shapes', id)
               IN /\ Len(new) = Len(old) + 1
                  /\ new[i + 2] = carried
                  /\ RemoveAt(new, i + 1) = old
                  /\ Get(shapes', id).obj.path = Some(new)
                  /\ drag' = None]_vars

\* a gesture on a midpoint handle of a polygon has just ended and has left
\* a third vertex that differs from both its neighbours, which differ too
C13_Witness ==
    /\ lastOp = "midpoint dragend"
    /\ Len(shapes) = 1
    /\ shapes[1].type = "polygon"
    /\ Len(shapes[1].path[1]) = 4
    /\ shapes[1].path[1][1] # shapes[1].path[1][2]
    /\ shapes[1].path[1][3] \in Points
    /\ shapes[1].path[1][3] # shapes[1].path[1][2]
    /\ shapes[1].path[1][3] # shapes[1].path[1][4]
    /\ drag = None

\* ------------------------------------------------------------------ C14

\* the minimum number of points the claim gives for each type
MinimumStated(type) ==
    CASE type = "polygon" -> 3
      [] type = "polyline" -> 2
      [] type = "circle" -> 2
      [] type = "rectangle" -> 2

\* C14: completeDrawing(), a double-click or Enter while drawing with fewer
\* points than the minimum of the type (polygon 3, polyline 2, circle 2,
\* rectangle 2) changes nothing (the session keeps drawing the same type
\* with the same path, the registry and the log are as they were) and emits
\* no event.
C14_EarlyCompletionNoOp ==
    [][(/\ lastOp' \in {"completeDrawing", "dblclick", "Enter"}
        /\ isDrawing
        /\ Len(drawingPath) < MinimumStated(drawingType))
            => /\ isDrawing'
               /\ drawingType' = drawingType
               /\ drawingPath' = drawingPath
               /\ shapes' = shapes
               /\ history' = history
               /\ currentIndex' = currentIndex
               /\ program' = program
               /\ events' = <<>>]_vars

\* Enter has just been pressed on a polygon drawing of two points
C14_Witness ==
    /\ lastOp = "Enter"
    /\ isDrawing
    /\ drawingType = "polygon"
    /\ Len(drawingPath) = 2
    /\ events = <<>>

\* ------------------------------------------------------------------ C15

\* C15: a circle or rectangle drawing never holds more than one point
\* between events; its first click records the clicked point and nothing
\* else, and its second click registers a shape of the type, recorded in the
\* log, and leaves the session idle with an empty path.
C15_TwoPointGesture ==
    /\ []((isDrawing /\ drawingType \in {"circle", "rectangle"})
              => Len(drawingPath) <= 1)
    /\ [][(lastOp' = "click" /\ isDrawing /\ drawingType \in {"circle", "rectangle"})
            => IF drawingPath = <<>>
               THEN /\ Len(drawingPath') = 1
                    /\ drawingPath'[1] \in Points
                    /\ isDrawing'
                    /\ drawingType' = drawingType
                    /\ shapes' = shapes
                    /\ history' = history
                    /\ currentIndex' = currentIndex
               ELSE /\ ~isDrawing'
                    /\ drawingPath' = <<>>
                    /\ Len(shapes') = Len(shapes) + 1
                    /\ shapes'[Len(shapes')].type = drawingType
                    /\ shapes'[Len(shapes')].id \notin Ids(shapes)
                    /\ Len(Named(events', "shape:created")) = 1
                    /\ currentIndex' = currentIndex + 1
                    /\ history'[currentIndex' + 1].type = "create"
                    /\ history'[currentIndex' + 1].id = shapes'[Len(shapes')].id]_vars

\* the second click of a circle drawing, away from the anchor, has just
\* registered the circle
C15_Witness ==
    /\ lastOp = "click"
    /\ ~isDrawing
    /\ Len(shapes) = 1
    /\ shapes[1].type = "circle"
    /\ shapes[1].radius # Some(0)
    /\ Len(Named(events, "shape:created")) = 1
    /\ Len(Named(events, "drawing:complete")) = 1

\* ------------------------------------------------------------------ C16

\* C16: at most one set of drawing listeners is ever registered, and it is
\* registered exactly while a drawing is active; startDrawing(t) called
\* while drawing emits drawing:cancel first and drawing:start (of type t)
\* last, and leaves the session drawing t with one fresh set of listeners,
\* an empty path, no preview, no remembered snap point, no selection and the
\* log as it was.
C16_RestartCancelsFirst ==
    /\ [](/\ mapListeners <= 1
          /\ drawingListeners = mapListeners
          /\ isDrawing <=> mapListeners = 1)
    /\ [][(lastOp' = "startDrawing" /\ isDrawing)
            => /\ Len(Named(events', "drawing:cancel")) = 1
               /\ Len(Named(events', "drawing:start")) = 1
               /\ events'[1].name = "drawing:cancel"
               /\ events'[Len(events')].name = "drawing:start"
               /\ events'[Len(events')].type = drawingType'
               /\ isDrawing'
               /\ drawingType' \in ShapeTypes
               /\ drawingPath' = <<>>
               /\ previewMarkers' = 0
               /\ lastSnapPoint' = None
               /\ selectedShapeId' = 0
               /\ shapes' = shapes
               /\ history' = history
               /\ currentIndex' = currentIndex]_vars

\* startDrawing('circle') has just replaced another drawing
C16_Witness ==
    /\ lastOp = "startDrawing"
    /\ Len(events) >= 2
    /\ events[1].name = "drawing:cancel"
    /\ events[Len(events)].name = "drawing:start"
    /\ isDrawing
    /\ drawingType = "circle"
    /\ drawingPath = <<>>
    /\ mapListeners = 1

\* ------------------------------------------------------------------ C17

\* C17: stopDrawing() while drawing, whatever the path accumulated, leaves
\* the session idle with an empty path and no remembered snap point, and
\* leaves the registry, the SnapEngine registry, the selection and the log
\* (entries and currentIndex) as they were.
C17_StopDrawingFrame ==
    [][(lastOp' = "stopDrawing" /\ isDrawing)
            => /\ ~isDrawing'
               /\ drawingType' = ""
               /\ drawingPath' = <<>>
               /\ lastSnapPoint' = None
               /\ previewMarkers' = 0
               /\ shapes' = shapes
               /\ snapShapes' = snapShapes
               /\ selectedShapeId' = selectedShapeId
               /\ history' = history
               /\ currentIndex' = currentIndex]_vars

\* a polygon drawing of two points with a remembered snap point, while a
\* shape is registered and selected and the log holds its entry: the state
\* stopDrawing() is called in
C17_Witness ==
    /\ isDrawing
    /\ drawingType = "polygon"
    /\ Len(drawingPath) = 2
    /\ lastSnapPoint # None
    /\ Len(shapes) = 1
    /\ selectedShapeId = shapes[1].id
    /\ currentIndex = 0

\* ------------------------------------------------------------------ C18

\* the operation has pushed exactly one entry, of the given type, after the
\* entries up to the current one
PushedOne(type) ==
    /\ currentIndex' = currentIndex + 1
    /\ Len(history') = currentIndex + 2
    /\ SubSeq(history', 1, currentIndex + 1) = SubSeq(history, 1, currentIndex + 1)
    /\ history'[Len(history')].type = type

\* C18: deleteShape(id) for a registered id leaves the other shapes in the
\* registry and removes id from it, from the SnapEngine registry, from the
\* handles and from the labels, clears the selection exactly if id was
\* selected, and pushes exactly one entry, a deletion of id; for an id that
\* is not registered it changes no state and emits nothing.
C18_DeleteShape ==
    [][\A id \in 1..MaxShapesTwo :
          (lastOp' = "deleteShape" /\ Commit(deleteShape(Begin("deleteShape"), id)))
            => IF Has(shapes, id)
               THEN /\ shapes' = FilterOut(shapes, id)
                    /\ ~Has(shapes', id)
                    /\ id \notin SeqToSet(snapShapes')
                    /\ id \notin vertexMarkers'
                    /\ id \notin visibleMarkers'
                    /\ id \notin labels'
                    /\ selectedShapeId' = IF selectedShapeId = id THEN 0
                                          ELSE selectedShapeId
                    /\ PushedOne("delete")
                    /\ history'[Len(history')].id = id
               ELSE /\ program' = program
                    /\ events' = <<>>]_vars

\* deleteShape has just removed one of two registered shapes, a polygon
\* with handles, and recorded it
C18_Witness ==
    /\ lastOp = "deleteShape"
    /\ Len(Named(events, "shape:deleted")) = 1
    /\ Len(shapes) = 1
    /\ shapes[1].id # Named(events, "shape:deleted")[1].id
    /\ currentIndex = Len(history) - 1
    /\ history[Len(history)].type = "delete"
    /\ history[Len(history)].data[1].type = "polygon"

\* ------------------------------------------------------------------ C19

\* id, name, type and geometry of each element of a list of shapes
Identities(list) == [i \in 1..Len(list) |-> Identity(list[i])]

\* C19: clearAll() on a registry of N >= 1 shapes empties it and pushes
\* exactly one entry, which holds the N shapes; an undo() right after puts
\* the N shapes back with their ids, names, types and geometry, and a redo()
\* right after that removes all N again; clearAll() on an empty registry
\* changes nothing and pushes no entry.
C19_ClearAllUndoRedo ==
    [][/\ lastOp' = "clearAll"
            => IF shapes = <<>>
               THEN /\ program' = program
                    /\ events' = <<>>
               ELSE /\ shapes' = <<>>
                    /\ PushedOne("clear")
                    /\ Identities(history'[Len(history')].data) = Identities(shapes)
       /\ (lastOp = "clearAll" /\ Named(events, "shapes:cleared") # <<>>
              /\ lastOp' = "undo")
            => LET was == history[currentIndex + 1].data
               IN /\ Identities(shapes') = Identities(was)
                  /\ Len(Named(events', "shape:created")) = Len(was)
                  /\ currentIndex' = currentIndex - 1
                  /\ history' = history
       /\ (lastOp = "undo" /\ result = "true" /\ currentIndex + 2 <= Len(history)
              /\ history[currentIndex + 2].type = "clear" /\ lastOp' = "redo")
            => /\ Len(shapes) = Len(history[currentIndex + 2].data)
               /\ shapes' = <<>>
               /\ Len(Named(events', "shape:deleted")) = Len(shapes)
               /\ currentIndex' = currentIndex + 1
               /\ history' = history]_vars

\* a clearAll() of two shapes has been undone and has just been redone
C19_Witness ==
    /\ lastOp = "redo"
    /\ result = "true"
    /\ history[currentIndex + 1].type = "clear"
    /\ Len(history[currentIndex + 1].data) = 2
    /\ shapes = <<>>
    /\ Len(Named(events, "shape:deleted")) = 2

\* ------------------------------------------------------------------ C20

\* C20: selectShape(id) with id the selected shape, and deselectShape() with
\* no shape selected, change no state (selection, styles and handle
\* visibility included) and emit no event.
C20_SelectionNoOps ==
    [][/\ \A id \in 1..MaxShapes :
             (/\ lastOp' = "selectShape"
              /\ selectedShapeId = id
              /\ Commit(selectShape(Begin("selectShape"), id)))
                => /\ program' = program
                   /\ events' = <<>>
       /\ (lastOp' = "deselectShape" /\ selectedShapeId = 0)
            => /\ program' = program
               /\ events' = <<>>]_vars

\* selectShape has just been called with the registered, selected and
\* restyled shape whose handles are shown
C20_Witness ==
    /\ lastOp = "selectShape"
    /\ events = <<>>
    /\ Has(shapes, selectedShapeId)
    /\ selectedShapeId \in selectedStyle
    /\ selectedShapeId \in visibleMarkers

\* ------------------------------------------------------------------ C21

\* C21: no shape but the selected one has the selected style or visible
\* handles; selectShape(b) for a registered b while another registered shape
\* a is selected leaves b selected, a with the completed style and hidden
\* handles, b with the selected style and its handles (if it has any)
\* visible, and no other shape styled or handled as selected.
C21_OneSelection ==
    /\ [](/\ selectedStyle \subseteq {selectedShapeId}
          /\ visibleMarkers \subseteq {selectedShapeId})
    /\ [][\A b \in 1..MaxShapesTwo :
             (/\ lastOp' = "selectShape"
              /\ Commit(selectShape(Begin("selectShape"), b))
              /\ selectedShapeId # b
              /\ Has(shapes, selectedShapeId)
              /\ Has(shapes, b))
                => LET a == selectedShapeId
                   IN /\ selectedShapeId' = b
                      /\ a \notin selectedStyle'
                      /\ a \notin visibleMarkers'
                      /\ selectedStyle' = {b}
                      /\ visibleMarkers' = {b} \cap vertexMarkers
                      /\ shapes' = shapes]_vars

\* the second of two registered polygons has just been selected while the
\* first was: only the second is styled as selected and shows its handles
C21_Witness ==
    /\ lastOp = "selectShape"
    /\ Len(shapes) = 2
    /\ shapes[1].type = "polygon"
    /\ shapes[2].type = "polygon"
    /\ selectedShapeId = shapes[2].id
    /\ Len(Named(events, "shape:selected")) = 1
    /\ Named(events, "shape:deselected") = <<>>
    /\ selectedStyle = {shapes[2].id}
    /\ visibleMarkers = {shapes[2].id}
    /\ vertexMarkers = {shapes[1].id, shapes[2].id}

\* ------------------------------------------------------------------ C22..C26: helpers

\* a findSnapPoint call has been answered and the engine is as it was then
Asked == found.by # "none"

\* the edges the call had to consider, in iteration order
Candidates == getAllEdges(engine, found.excludeShapeId)

\* the (squared) pixel distance from the cursor of the call to an edge
PixelDistance(edge) ==
    LET scale == Pow2(engine.zoom)
    IN projectPointToSegment(toPixel(found.point, scale),
           toPixel(edge.start, scale), toPixel(edge.end, scale)).distance

\* the threshold, squared like the distances
Threshold == Frac(engine.threshold * engine.threshold, 1)

\* ------------------------------------------------------------------ C22
\* C22: findSnapPoint returns none whenever every non-excluded edge is at a
\* pixel distance of at least the threshold from the cursor (a distance equal
\* to the threshold included); otherwise (the engine enabled and its map
\* projecting) it returns a result, and the distance of every result is
\* strictly less than the threshold.
C22_Threshold ==
    Asked =>
        /\ (\A i \in 1..Len(Candidates) :
                ~FracLess(PixelDistance(Candidates[i]), Threshold))
              => found.result = None
        /\ (/\ engine.enabled
            /\ engine.projection
            /\ \E i \in 1..Len(Candidates) :
                   FracLess(PixelDistance(Candidates[i]), Threshold))
              => found.result # None
        /\ found.result # None => FracLess(found.result[1].distance, Threshold)

\* a call on an enabled, projecting engine whose nearest edge is exactly at
\* the threshold: it returned none
C22_Witness ==
    /\ Asked
    /\ engine.enabled
    /\ engine.projection
    /\ \E i \in 1..Len(Candidates) : PixelDistance(Candidates[i]) = Threshold
    /\ \A i \in 1..Len(Candidates) :
           ~FracLess(PixelDistance(Candidates[i]), Threshold)
    /\ found.result = None
    /\ found.conversions > 0

\* ------------------------------------------------------------------ C23
\* C23: findSnapPoint never returns a result whose edge belongs to the
\* excluded shape, and the drag listener of a handle of shape S queries with
\* S excluded, so what a dragged handle of S snaps to is never an edge of S.
C23_NoSelfSnap ==
    Asked =>
        /\ found.result # None
              => found.result[1].edge.shapeId # found.excludeShapeId
        /\ found.by = "drag"
              => /\ found.excludeShapeId = found.dragged
                 /\ found.result # None
                       => found.result[1].edge.shapeId # found.dragged

\* a drag query on a shape one of whose own edges is nearer to the cursor
\* than the edge of the other shape it snapped to
C23_Witness ==
    /\ found.by = "drag"
    /\ found.result # None
    /\ \E i \in 1..Len(engine.shapes) :
          /\ engine.shapes[i].id = found.dragged
          /\ \E k \in 1..Len(shapeEdges(engine.shapes[i])) :
                 FracLess(PixelDistance(shapeEdges(engine.shapes[i])[k]),
                          found.result[1].distance)

\* ------------------------------------------------------------------ C24
\* C24: the edge of a result has the minimum pixel distance to the cursor
\* among the edges of the registered, non-excluded shapes, and among the
\* edges at that minimum it is the first in iteration order (shapes in the
\* order of their registration, then the edges of a shape in their order).
C24_NearestFirst ==
    (Asked /\ found.result # None) =>
        \E k \in 1..Len(Candidates) :
            /\ found.result[1].edge = Candidates[k]
            /\ found.result[1].distance = PixelDistance(Candidates[k])
            /\ \A i \in 1..Len(Candidates) :
                   ~FracLess(PixelDistance(Candidates[i]), PixelDistance(Candidates[k]))
            /\ \A i \in 1..(k - 1) :
                   PixelDistance(Candidates[i]) # PixelDistance(Candidates[k])

\* two shapes, registered in the reverse order of their ids, each with an
\* edge at the minimum: the result is the edge of the first registered
C24_Witness ==
    /\ Asked
    /\ found.result # None
    /\ Len(engine.shapes) = 2
    /\ engine.shapes[1].id > engine.shapes[2].id
    /\ found.result[1].edge.shapeId = engine.shapes[1].id
    /\ \E j \in 1..Len(Candidates) :
          /\ Candidates[j].shapeId = engine.shapes[2].id
          /\ PixelDistance(Candidates[j]) = found.result[1].distance

\* ------------------------------------------------------------------ C26
\* C26: while snapping is disabled or no shape is registered, findSnapPoint
\* returns none, makes no coordinate conversion and leaves the registry of
\* the engine as it was.
C26_DisabledOrEmpty ==
    [][(/\ lastOp' \in {"findSnapPoint", "drag"}
        /\ (~engine.enabled \/ Len(engine.shapes) = 0))
          => /\ found'.result = None
             /\ found'.conversions = 0
             /\ engine'.shapes = engine.shapes]_vars

\* a call on a disabled engine that has an edge within the threshold of the
\* cursor: none, and nothing converted
C26_Witness ==
    /\ found.by = "api"
    /\ ~engine.enabled
    /\ engine.projection
    /\ \E i \in 1..Len(Candidates) :
           FracLess(PixelDistance(Candidates[i]), Threshold)
    /\ found.result = None
    /\ found.conversions = 0

\* ------------------------------------------------------------------ C25
\* C25: while drawing, a click appends (or takes as anchor or completion
\* point) the snap point found by the most recent pointer move if that move
\* found one, and the position of the click if it found none or if there was
\* no move since the drawing started.  Stated step by step: startDrawing
\* forgets the snap point, a move remembers what it found (none included),
\* no other step of a drawing changes what is remembered, and a click takes
\* the remembered point, or its own position when none is remembered.
ClickPoint(raw) == IF lastSnapPoint # None THEN lastSnapPoint[1] ELSE raw

Outcome(s) ==
    <<s.history, s.currentIndex, s.shapes, s.selectedShapeId, s.isDrawing,
      s.drawingType, s.drawingPath, s.lastSnapPoint, s.idCounter,
      s.shapeNameCounter, s.drawingListeners, s.mapListeners, s.previewMarkers,
      s.snapShapes, s.vertexMarkers, s.visibleMarkers, s.labels,
      s.selectedStyle, s.events, s.mgrResult>>

\* the calls of listener i for the k-th emission
CallsOf(log, i, k) ==
    {j \in 1..Len(log) : log[j].listener = i /\ log[j].emission = k}

C27_ListenerThrows ==
    [][lastOp' \notin {"on", "off"} =>
        LET q == [Begin(lastOp') EXCEPT !.listeners = <<>>]
        IN /\ listeners' = listeners
           /\ \A k \in 1..Len(events'), i \in 1..Len(listeners) :
                 Cardinality(CallsOf(invoked', i, k))
                   = IF listeners[i].event = events'[k].name THEN 1 ELSE 0
           /\ lastOp' = "completeDrawing"
                 => Outcome(Cur)' = Outcome(completeDrawing(q))
           /\ lastOp' = "stopDrawing" => Outcome(Cur)' = Outcome(stopDrawing(q))
           /\ lastOp' = "click"
                 => \E raw \in Origin : Outcome(Cur)' = Outcome(mapClick(q, raw))
           /\ lastOp' = "startDrawing"
                 => \E type \in ShapeTypes :
                       Outcome(Cur)' = Outcome(startDrawing(q, type))
           /\ lastOp' = "undo" => Outcome(Cur)' = Outcome(mgrUndo(q))
           /\ lastOp' = "redo" => Outcome(Cur)' = Outcome(mgrRedo(q))
           /\ (/\ lastOp' = "completeDrawing"
               /\ isDrawing
               /\ Len(drawingPath) >= (IF drawingType = "polygon" THEN 3 ELSE 2))
                 => /\ Len(shapes') = Len(shapes) + 1
                    /\ Len(Named(events', "shape:created")) = 1
                    /\ currentIndex' = Len(history') - 1
                    /\ history'[Len(history')].type = "create"
                    /\ history'[Len(history')].id = shapes'[Len(shapes')].id
                    /\ ~isDrawing'
                    /\ drawingPath' = <<>>
                    /\ mapListeners' = 0]_vars

\* a drawing completed with two listeners on shape:created, the first of
\* which threw: both were called once, the shape is registered and recorded,
\* and the session is idle
C27_Witness ==
    /\ lastOp = "completeDrawing"
    /\ listeners = <<Listener("shape:created", TRUE), Listener("shape:created", FALSE)>>
    /\ Len(invoked) = 2
    /\ invoked[1].listener = 1 /\ invoked[1].threw
    /\ invoked[2].listener = 2 /\ ~invoked[2].threw
    /\ invoked[1].emission = invoked[2].emission
    /\ events[invoked[1].emission].name = "shape:created"
    /\ Len(shapes) = 1
    /\ Len(history) = 1
    /\ ~isDrawing

\* ------------------------------------------------------------------ C28
\* C28: in every state reached by drawing, completing, dragging vertex and
\* midpoint handles, deleting, clearing, undoing and redoing, every polygon
\* of the registry has a path of at least 3 points and every polyline one of
\* at least 2 points (the recorded path and the path of the map object).
MinimumOf(type) == IF type = "polygon" THEN 3 ELSE 2

C28_PathMinimum ==
    \A i \in 1..Len(shapes) :
        shapes[i].type \in {"polygon", "polyline"}
          => /\ shapes[i].path # None
             /\ Len(shapes[i].path[1]) >= MinimumOf(shapes[i].type)
             /\ shapes[i].obj.path # None
             /\ Len(shapes[i].obj.path[1]) >= MinimumOf(shapes[i].type)

\* a triangle back in the registry by the undo of its deletion
C28_Witness ==
    /\ lastOp = "undo"
    /\ Len(shapes) = 1
    /\ shapes[1].type = "polygon"
    /\ Len(shapes[1].path[1]) = 3
    /\ currentIndex = 0
    /\ Len(history) = 2
    /\ history[2].type = "delete"

\* ------------------------------------------------------------------ C29
\* C29: the keys act under their guards only.  Escape and Enter change
\* nothing unless a drawing is in progress; Escape then cancels it and
\* records nothing in the history, Enter then does what completeDrawing does.
\* Delete and Backspace delete the selected shape, and only it, with one
\* history entry, and do nothing when no shape is selected (selectedShapeId
\* is null, or an id selectShape was given that no registered shape has).
C29_KeyGuards ==
       [][/\ (lastOp' \in {"Escape", "Enter"} /\ ~isDrawing)
              => (program' = program /\ events' = <<>>)
          /\ (lastOp' = "Escape" /\ isDrawing)
              => /\ ~isDrawing'
                 /\ drawingPath' = <<>>
                 /\ mapListeners' = 0
                 /\ history' = history
                 /\ currentIndex' = currentIndex
                 /\ shapes' = shapes
                 /\ Len(Named(events', "drawing:cancel")) = 1
                 /\ Len(events') = 1
          /\ lastOp' = "Enter"
              => Outcome(Cur)' = Outcome(completeDrawing(Begin("Enter")))
          /\ (lastOp' \in {"Delete", "Backspace"} /\ ~Has(shapes, selectedShapeId))
              => (program' = program /\ events' = <<>>)
          /\ (lastOp' \in {"Delete", "Backspace"} /\ Has(shapes, selectedShapeId))
              => /\ shapes' = FilterOut(shapes, selectedShapeId)
                 /\ Len(shapes') = Len(shapes) - 1
                 /\ selectedShapeId' = 0
                 /\ PushedOne("delete")
                 /\ history'[Len(history')].id = selectedShapeId]_vars

\* Backspace with the one shape selected: the registry is empty and the
\* deletion is the current entry of the log, after the creation
C29_Witness ==
    /\ lastOp = "Backspace"
    /\ shapes = <<>>
    /\ selectedShapeId = 0
    /\ Len(history) = 2
    /\ currentIndex = 1
    /\ history[1].type = "create"
    /\ history[2].type = "delete"
    /\ Len(Named(events, "shape:deleted")) = 1

\* ------------------------------------------------------------------ C30
\* C30: every operation that changes a registered shape can be undone: in a
\* state reached with updateShapeName or with edits of vertices, undo()
\* followed at once by redo() leaves the registry (the ids, names, types and
\* geometry of all shapes) as it was before the undo.
RegistryOf(s) == SeqToSet(Identities(s.shapes))

C30_UndoRedoKeepsRegistry ==
    currentIndex >= 0
      => RegistryOf(mgrRedo(mgrUndo(Begin("undo")))) = RegistryOf(Cur)

\* ------------------------------------------------------------------ C31
\* C31: the segment projection used for snapping returns t in [0, 1] and a
\* point of the segment between its endpoints; for a segment whose endpoints
\* coincide at a it returns the point a, t = 0 and the distance from the
\* cursor to a; and the SnapEngine's own projection and the geometry
\* module's projectPointToLine return the same point, distance and t for the
\* same inputs.

\* r is a projection onto the segment of probe: t in [0, 1], the point is
\* start + t * (end - start), and the distance is that from the cursor to it
OnSegment(r) ==
    LET a == probe.lineStart
        b == probe.lineEnd
    IN /\ r.t.d > 0
       /\ 0 <= r.t.n
       /\ r.t.n <= r.t.d
       /\ r.point.den > 0
       /\ (r.point.x - a.x * r.point.den) * r.t.d = r.t.n * (b.x - a.x) * r.point.den
       /\ (r.point.y - a.y * r.point.den) * r.t.d = r.t.n * (b.y - a.y) * r.point.den
       /\ r.distance.d > 0
       /\ ((probe.point.x * r.point.den - r.point.x)
              * (probe.point.x * r.point.den - r.point.x)
            + (probe.point.y * r.point.den - r.point.y)
              * (probe.point.y * r.point.den - r.point.y)) * r.distance.d
             = r.distance.n * r.point.den * r.point.den
       /\ a = b
            => /\ r.point.x = a.x * r.point.den
               /\ r.point.y = a.y * r.point.den
               /\ r.t.n = 0
               /\ r.distance.n
                    = ((probe.point.x - a.x) * (probe.point.x - a.x)
                       + (probe.point.y - a.y) * (probe.point.y - a.y)) * r.distance.d

C31_SegmentProjection ==
    /\ probe.segment # None => OnSegment(probe.segment[1])
    /\ probe.line # None => OnSegment(probe.line[1])
    /\ (probe.segment # None /\ probe.line # None) => probe.segment = probe.line

\* both functions applied to a cursor whose projection would fall beyond the
\* end of a slanted segment: t is clamped to 1
C31_Witness ==
    /\ probe.segment # None
    /\ probe.line # None
    /\ probe.lineStart.x # probe.lineEnd.x
    /\ probe.lineStart.y # probe.lineEnd.y
    /\ probe.segment[1].t = Frac(1, 1)
    /\ probe.segment[1].distance.n > 0
    /\ (probe.point.x - probe.lineEnd.x) * (probe.lineEnd.x - probe.lineStart.x)
         + (probe.point.y - probe.lineEnd.y) * (probe.lineEnd.y - probe.lineStart.y) > 0

\* ------------------------------------------------------------------ C32
\* C32: in every reachable state the selected shape id is null or the id of
\* a shape of the registry, also after selectShape was called with an id
\* that is not in the registry and after the selected shape was removed by
\* deleteShape, clearAll or undo.
C32_SelectionRegistered == selectedShapeId # 0 => Has(shapes, selectedShapeId)

\* ------------------------------------------------------------------ C33
\* C33: in every reachable state the ids registered in the SnapEngine are
\* the ids of the shape registry, also when a deleteShape, a clearAll or an
\* undo of the edited shape comes between the start and the release of a
\* drag of one of its handles.
C33_SnapRegistryInSync ==
    SeqToSet(snapShapes) = {shapes[i].id : i \in 1..Len(shapes)}

\* ------------------------------------------------------------------ C34
\* C34: once snapping is disabled with setSnapping({ enabled: false }) during
\* a drawing, every later click of that drawing takes the position of the
\* click, also when the last pointer move before the disabling had found a
\* snap point.
C34_DisabledSnappingRawClicks ==
    [][\A raw \in Origin :
          (/\ lastOp' = "click"
           /\ isDrawing
           /\ ~snapping
           /\ Commit(mapClick(Begin("click"), raw)))
            => CASE IsPathType(drawingType) ->
                      drawingPath' = Append(drawingPath, raw)
                 [] drawingPath = <<>> ->
                      drawingPath' = <<raw>>
                 [] drawingType = "circle" ->
                      /\ Len(shapes') = Len(shapes) + 1
                      /\ shapes'[Len(shapes')].radius
                            = Some(distanceLatLng(drawingPath[1], raw))
                 [] OTHER ->
                      /\ Len(shapes') = Len(shapes) + 1
                      /\ shapes'[Len(shapes')].bounds
                            = Some([north |-> Max(drawingPath[1].lat, raw.lat),
                                    south |-> Min(drawingPath[1].lat, raw.lat),
                                    east |-> Max(drawingPath[1].lng, raw.lng),
                                    west |-> Min(drawingPath[1].lng, raw.lng)])]_vars

\* ------------------------------------------------------------------ C35
\* C35: drawing:cancel is emitted only when a drawing in progress is given
\* up without producing a shape: an operation that emits it starts in a
\* drawing and emits no drawing:complete, a completion emits drawing:complete
\* and no drawing:cancel, and stopDrawing() called while idle emits nothing.
C35_CancelOnlyOnAbandon ==
    [][/\ Named(events', "drawing:cancel") # <<>>
            => /\ isDrawing
               /\ Named(events', "drawing:complete") = <<>>
               /\ Named(events', "shape:created") = <<>>
       /\ Named(events', "drawing:complete") # <<>>
            => Named(events', "drawing:cancel") = <<>>
       /\ (lastOp' = "stopDrawing" /\ ~isDrawing) => events' = <<>>]_vars

\* ------------------------------------------------------------------ C36
\* C36: while a drawing is in progress no shape is selected: startDrawing
\* clears the selection, and nothing that can happen during the drawing (a
\* click on the map or on a shape, a pointer move, undo, redo) selects a
\* shape before the session is idle again.
C36_NoSelectionWhileDrawing == isDrawing => ~Has(shapes, selectedShapeId)

\* ------------------------------------------------------------------ C37
\* C37: in every reachable state outside a drag gesture in progress, the
\* handles of a polygon or polyline of the registry are visible exactly when
\* that shape is the selected one, also after undo or redo has restored the
\* shape and after a midpoint drag has rebuilt its handles.
C37_HandlesFollowSelection ==
    drag = None
      => \A i \in 1..Len(shapes) :
            IsPathType(shapes[i].type)
              => (shapes[i].id \in visibleMarkers <=> selectedShapeId = shapes[i].id)

\* ------------------------------------------------------------------ C38
\* C38: after creations, deletions and clearAll calls that evicted no entry
\* of the log (fewer than maxSteps entries) and with nothing undone, undo()
\* called until canUndo is false leaves the registry empty, and redo() then
\* called until canRedo is false leaves the registry with exactly the shape
\* ids it had before the first undo.
RECURSIVE undoAll(_)
undoAll(s) == IF canUndo(s) THEN undoAll(mgrUndo(s)) ELSE s

RECURSIVE redoAll(_)
redoAll(s) == IF canRedo(s) THEN redoAll(mgrRedo(s)) ELSE s

IdsOf(s) == {s.shapes[i].id : i \in 1..Len(s.shapes)}

C38_UndoAllRedoAll ==
    (~canRedo(Cur) /\ Len(history) < maxSteps)
      => LET undone == undoAll(Begin("undo"))
         IN /\ undone.shapes = <<>>
            /\ IdsOf(redoAll(undone)) = IdsOf(Cur)

\* a creation, a clearAll and a second creation are in the log and shape 2 is
\* registered: three undos empty the registry, three redos bring shape 2 back
C38_Witness ==
    /\ Len(history) = 3
    /\ currentIndex = 2
    /\ history[1].type = "create"
    /\ history[2].type = "clear"
    /\ history[3].type = "create"
    /\ IdsOf(Cur) = {2}
    /\ undoAll(Begin("undo")).currentIndex = -1
    /\ undoAll(Begin("undo")).shapes = <<>>
    /\ redoAll(undoAll(Begin("undo"))).currentIndex = 2
    /\ IdsOf(redoAll(undoAll(Begin("undo")))) = {2}

\* ------------------------------------------------------------------ C39
\* C39: shape ids are unique and stable: no two shapes of the registry share
\* an id; the id given to a completed shape is one no earlier shape was given
\* (not even a deleted one); and a shape restored by undo or redo has the id
\* it had before it was removed.

\* the snapshots the entries of the log hold
SnapshotsOf(log) == UNION {SeqToSet(log[i].data) : i \in 1..Len(log)}

\* every id the program holds: of the registry and of the snapshots
KnownIds == Ids(shapes) \cup {d.id : d \in SnapshotsOf(history)}

C39_IdsUniqueStable ==
    /\ [](/\ \A i, j \in 1..Len(shapes) : shapes[i].id = shapes[j].id => i = j
          /\ \A id \in KnownIds : 1 <= id /\ id <= idCounter
          /\ \A d \in SnapshotsOf(history) :
                Has(shapes, d.id) => Get(shapes, d.id).type = d.type)
    /\ [][/\ idCounter' \in {idCounter, idCounter + 1}
          /\ (lastOp' \notin {"undo", "redo"}
                /\ Named(events', "shape:created") # <<>>)
              => /\ idCounter' = idCounter + 1
                 /\ Len(Named(events', "shape:created")) = 1
                 /\ Named(events', "shape:created")[1].shape[1].id = idCounter'
                 /\ Has(shapes', idCounter')
          /\ idCounter' = idCounter + 1
              => (lastOp' \notin {"undo", "redo"}
                   /\ Named(events', "shape:created") # <<>>)
          /\ \A i \in 1..Len(shapes') :
                (lastOp' \in {"undo", "redo"} /\ ~Has(shapes, shapes'[i].id))
                  => \E d \in SnapshotsOf(history) :
                        /\ d.id = shapes'[i].id
                        /\ d.type = shapes'[i].type
                        /\ d.id <= idCounter
          /\ \A i \in 1..Len(shapes) :
                Has(shapes', shapes[i].id)
                  => Get(shapes', shapes[i].id).type = shapes[i].type]_vars

\* shape 1 was deleted after shape 2 was created, and the undo of the
\* deletion has brought it back as shape 1, behind shape 2 in the registry
C39_Witness ==
    /\ lastOp = "undo"
    /\ idCounter = 2
    /\ Len(history) = 3
    /\ currentIndex = 1
    /\ history[3].type = "delete"
    /\ history[3].id = 1
    /\ KeyOrder(shapes) = <<2, 1>>
    /\ Len(Named(events, "shape:created")) = 1
    /\ Named(events, "shape:created")[1].shape[1].id = 1

\* ------------------------------------------------------------------ C40
\* C40: after every event the composable has processed, its activeShape is
\* non-null exactly when the DrawingManager has a selected shape, and then
\* has that shape's id; and its isDrawing, canUndo and canRedo equal the
\* manager's isDrawing, canUndo and canRedo.
C40_RefsFollowManager ==
    glue # None
      => LET refs == glue[1]
         IN /\ (refs.activeShape # None) <=> (selectedShapeId # 0)
            /\ refs.activeShape # None => refs.activeShape[1].id = selectedShapeId
            /\ refs.isDrawing = isDrawing
            /\ refs.canUndo = canUndo(Cur)
            /\ refs.canRedo = canRedo(Cur)

====
